---------------------------- MODULE Spec2Model ----------------------------
(***************************************************************************)
(* Model of the SGX remote attestation verifier (teerex ias-verify /       *)
(* sgx-verify).  Buffers are sequences of bytes with the wire layout of    *)
(* the source; Rust slices buf[a..b] are Slice(buf, a, b).  The external   *)
(* cryptographic crates (ring, webpki, der) are idealised: a digest that   *)
(* separates every pair of messages the model builds, and signatures that  *)
(* verify exactly for the message and key they were made for.              *)
(***************************************************************************)
EXTENDS Integers, Sequences, FiniteSets, TLC

VARIABLES
    op,                 \* entry point being exercised
    pc,                 \* "call" before the entry point ran, "done" after
    usize_bits,         \* pointer width of the build (32: wasm runtime, 64: native)
    dcap_quote,         \* verify_dcap_quote: the quote buffer
    verification_time,  \* verify_dcap_quote: caller's time, Unix milliseconds
    qe,                 \* verify_dcap_quote: the QuotingEnclave expected
    origin,             \* how the input was made: "fresh", "appended", "flipped";
                        \* for verify_ias_report what the certificate was written from
    base,               \* the accepted input a derived input was made from
    arg,                \* input of the other entry points (report body, cert_der)
    result              \* what the entry point returned

vars == <<op, pc, usize_bits, dcap_quote, verification_time, qe, origin, base, arg, result>>

---------------------------------------------------------------------------
(* Bytes and slices *)

Byte == 0 .. 255

\* buf[a..b] of Rust: bytes a (inclusive) to b (exclusive), 0-based.
Slice(buf, a, b) == SubSeq(buf, a + 1, b)

\* Whether buf[a..b] is inside the buffer (Rust panics otherwise).
InBounds(buf, a, b) == a <= b /\ b <= Len(buf)

Fill(n, v) == [i \in 1 .. n |-> v]

Min(a, b) == IF a < b THEN a ELSE b

\* u16::from_le_bytes
u16_from_le_bytes(b) == b[1] + 256 * b[2]

\* u16::to_le_bytes
u16_to_le_bytes(v) == <<v % 256, (v \div 256) % 256>>

\* u32::from_le_bytes, for values below 2^31
u32_from_le_bytes(b) == b[1] + 256 * b[2] + 65536 * b[3] + 16777216 * b[4]

\* u32::to_le_bytes, for values below 2^31
u32_to_le_bytes(v) ==
    <<v % 256, (v \div 256) % 256, (v \div 65536) % 256, (v \div 16777216) % 256>>

\* Bitwise and of two bytes.
RECURSIVE BitAnd(_, _, _)
BitAnd(x, y, n) ==
    IF n = 0 THEN 0
    ELSE (IF x % 2 = 1 /\ y % 2 = 1 THEN 1 ELSE 0) + 2 * BitAnd(x \div 2, y \div 2, n - 1)

\* Bitwise and of two u64 values given as their 8 little-endian bytes.
u64_and(a, b) == [i \in 1 .. 8 |-> BitAnd(a[i], b[i], 8)]

\* The byte with bit k flipped.
FlipBitOfByte(x, k) ==
    LET p == 2 ^ k
    IN  IF (x \div p) % 2 = 1 THEN x - p ELSE x + p

---------------------------------------------------------------------------
(* Wire layout: sizes of the source's structures *)

SGX_REPORT_DATA_SIZE == 64
ATTESTATION_KEY_SIZE == 64
REPORT_SIGNATURE_SIZE == 64
SGX_REPORT_BODY_RESERVED1_BYTES == 12
SGX_REPORT_BODY_RESERVED2_BYTES == 32
SGX_REPORT_BODY_RESERVED3_BYTES == 32
SGX_REPORT_BODY_RESERVED4_BYTES == 42
AUTHENTICATION_DATA_SIZE == 32

\* SGX_FLAGS_DEBUG = 0x0000000000000002 as a little-endian u64
SGX_FLAGS_DEBUG == <<2, 0, 0, 0, 0, 0, 0, 0>>

\* core::mem::size_of::<DcapQuoteHeader>() of the repr(C) struct:
\* u16, u16, u32, u16, u16, [u8; 16], [u8; 20], alignment 4, no padding
DCAP_QUOTE_HEADER_SIZE == 2 + 2 + 4 + 2 + 2 + 16 + 20

\* core::mem::size_of::<SgxReportBody>() of the repr(C) struct, alignment 8
REPORT_SIZE ==
    16 + 4 + SGX_REPORT_BODY_RESERVED1_BYTES + 16 + (8 + 8) + 32
    + SGX_REPORT_BODY_RESERVED2_BYTES + 32 + SGX_REPORT_BODY_RESERVED3_BYTES + 64
    + 2 + 2 + 2 + SGX_REPORT_BODY_RESERVED4_BYTES + 16 + SGX_REPORT_DATA_SIZE

\* core::mem::size_of::<u32>() and ::<u16>()
SIZE_OF_U32 == 4
SIZE_OF_U16 == 2

\* Encoded size of SgxQuote up to and including report_body
SGX_QUOTE_SIZE == 2 + 2 + 4 + 2 + 2 + 4 + 32 + REPORT_SIZE

---------------------------------------------------------------------------
(* SCALE decoding of the fixed-layout structures *)

\* SgxReportBody::decode of exactly REPORT_SIZE bytes
SgxReportBody_decode(b) ==
    [ cpu_svn         |-> Slice(b, 0, 16),
      misc_select     |-> Slice(b, 16, 20),
      reserved1       |-> Slice(b, 20, 32),
      isv_ext_prod_id |-> Slice(b, 32, 48),
      attributes      |-> [flags |-> Slice(b, 48, 56), xfrm |-> Slice(b, 56, 64)],
      mr_enclave      |-> Slice(b, 64, 96),
      reserved2       |-> Slice(b, 96, 128),
      mr_signer       |-> Slice(b, 128, 160),
      reserved3       |-> Slice(b, 160, 192),
      config_id       |-> Slice(b, 192, 256),
      isv_prod_id     |-> u16_from_le_bytes(Slice(b, 256, 258)),
      isv_svn         |-> u16_from_le_bytes(Slice(b, 258, 260)),
      config_svn      |-> u16_from_le_bytes(Slice(b, 260, 262)),
      reserved4       |-> Slice(b, 262, 304),
      isv_family_id   |-> Slice(b, 304, 320),
      report_data     |-> [d |-> Slice(b, 320, 384)] ]

\* DcapQuoteHeader::decode of exactly 48 bytes
DcapQuoteHeader_decode(b) ==
    [ version              |-> u16_from_le_bytes(Slice(b, 0, 2)),
      attestation_key_type |-> u16_from_le_bytes(Slice(b, 2, 4)),
      reserved             |-> Slice(b, 4, 8),
      qe_svn               |-> u16_from_le_bytes(Slice(b, 8, 10)),
      pce_svn              |-> u16_from_le_bytes(Slice(b, 10, 12)),
      qe_vendor_id         |-> Slice(b, 12, 28),
      user_data            |-> Slice(b, 28, 48) ]

\* <QeAuthenticationData as Decode>::decode: [kind, value, rest]
QeAuthenticationData_decode(input) ==
    IF Len(input) < 2 THEN [kind |-> "err"]
    ELSE
        LET size == u16_from_le_bytes(Slice(input, 0, 2))
            rest == Slice(input, 2, Len(input))
        IN  \* vec![0; size] is allocated, then filled by input.read
            IF Len(rest) < size THEN [kind |-> "err", allocated |-> size, remaining |-> Len(rest)]
            ELSE [ kind  |-> "ok",
                   value |-> [size |-> size, certification_data |-> Slice(rest, 0, size)],
                   rest  |-> Slice(rest, size, Len(rest)) ]

\* The u32 in size_buf is above isize::MAX of a 32-bit build (top bit set).
ExceedsIsizeMax32(size_buf) == size_buf[4] >= 128

\* <QeCertificationData as Decode>::decode: [kind, value, rest]; "panic" is the
\* capacity overflow of vec![0; size] when size exceeds isize::MAX of the build.
QeCertificationData_decode(input, bits) ==
    IF Len(input) < 2 THEN [kind |-> "err"]
    ELSE IF Len(input) < 2 + 4 THEN [kind |-> "err"]
    ELSE
        LET certification_data_type == u16_from_le_bytes(Slice(input, 0, 2))
            size_buf == Slice(input, 2, 6)
            rest == Slice(input, 6, Len(input))
        IN  IF ExceedsIsizeMax32(size_buf)
            THEN IF bits = 32 THEN [kind |-> "panic"] ELSE [kind |-> "err"]
            ELSE
                LET size == u32_from_le_bytes(size_buf)
                IN  IF Len(rest) < size THEN [kind |-> "err"]
                    ELSE [ kind  |-> "ok",
                           value |-> [ certification_data_type |-> certification_data_type,
                                       size |-> size,
                                       certification_data |-> Slice(rest, 0, size) ],
                           rest  |-> Slice(rest, size, Len(rest)) ]

\* Bytes of a DcapQuote before the variable-length blocks
DCAP_FIXED_PART ==
    DCAP_QUOTE_HEADER_SIZE + REPORT_SIZE + SIZE_OF_U32 + REPORT_SIGNATURE_SIZE
    + ATTESTATION_KEY_SIZE + REPORT_SIZE + REPORT_SIGNATURE_SIZE

\* <DcapQuote as Decode>::decode(&mut input): [kind, q, rest]
DcapQuote_decode(input, bits) ==
    IF Len(input) < DCAP_FIXED_PART THEN [kind |-> "err"]
    ELSE
        LET o1 == DCAP_QUOTE_HEADER_SIZE
            o2 == o1 + REPORT_SIZE
            o3 == o2 + SIZE_OF_U32
            o4 == o3 + REPORT_SIGNATURE_SIZE
            o5 == o4 + ATTESTATION_KEY_SIZE
            o6 == o5 + REPORT_SIZE
            o7 == o6 + REPORT_SIGNATURE_SIZE
            auth == QeAuthenticationData_decode(Slice(input, o7, Len(input)))
        IN  IF auth.kind # "ok" THEN [kind |-> "err"]
            ELSE
                LET cert == QeCertificationData_decode(auth.rest, bits)
                IN  IF cert.kind # "ok" THEN [kind |-> cert.kind]
                    ELSE
                        [ kind |-> "ok",
                          q |-> [ header |-> DcapQuoteHeader_decode(Slice(input, 0, o1)),
                                  body |-> SgxReportBody_decode(Slice(input, o1, o2)),
                                  signature_data_len |-> Slice(input, o2, o3),
                                  quote_signature_data |->
                                    [ isv_enclave_report_signature |-> Slice(input, o3, o4),
                                      ecdsa_attestation_key |-> Slice(input, o4, o5),
                                      qe_report |-> SgxReportBody_decode(Slice(input, o5, o6)),
                                      qe_report_signature |-> Slice(input, o6, o7),
                                      qe_authentication_data |-> auth.value,
                                      qe_certification_data |-> cert.value ] ],
                          rest |-> cert.rest ]

\* Mutant: the flags are compared whole, without the mask.
sgx_build_mode_unmasked(body) ==
    IF body.attributes.flags = SGX_FLAGS_DEBUG THEN "Debug" ELSE "Production"

\* SgxReportBody::sgx_build_mode
sgx_build_mode(body) ==
    IF u64_and(body.attributes.flags, SGX_FLAGS_DEBUG) = SGX_FLAGS_DEBUG
    THEN "Debug"
    ELSE "Production"

---------------------------------------------------------------------------
(* PEM extraction *)

\* "-----BEGIN CERTIFICATE-----"
BEGIN_CERTIFICATE ==
    <<45, 45, 45, 45, 45, 66, 69, 71, 73, 78, 32,
      67, 69, 82, 84, 73, 70, 73, 67, 65, 84, 69, 45, 45, 45, 45, 45>>

\* "-----END CERTIFICATE-----"
END_CERTIFICATE ==
    <<45, 45, 45, 45, 45, 69, 78, 68, 32,
      67, 69, 82, 84, 73, 70, 73, 67, 65, 84, 69, 45, 45, 45, 45, 45>>

\* '\n'
NEWLINE == 10

\* U+FFFD, the replacement character of String::from_utf8_lossy
REPLACEMENT_CHARACTER == 65533

\* String::from_utf8_lossy on a buffer of ASCII and stray high bytes: every
\* byte that is not ASCII becomes U+FFFD.
from_utf8_lossy(bytes) ==
    [i \in 1 .. Len(bytes) |-> IF bytes[i] < 128 THEN bytes[i] ELSE REPLACEMENT_CHARACTER]

\* Whether pat occurs in s at 1-based position i.
MatchAt(s, pat, i) ==
    /\ i + Len(pat) - 1 <= Len(s)
    /\ \A k \in 1 .. Len(pat) : s[i + k - 1] = pat[k]

\* The positions from start on where pat occurs in s.
MatchesFrom(s, pat, start) == {j \in start .. Len(s) : MatchAt(s, pat, j)}

\* str::split(pat): the pieces between the non-overlapping matches, taken
\* left to right, in order; start is where the current piece begins.
RECURSIVE split_from(_, _, _)
split_from(s, pat, start) ==
    LET m == MatchesFrom(s, pat, start)
    IN  IF m = {} THEN <<SubSeq(s, start, Len(s))>>
        ELSE
            LET j == CHOOSE x \in m : \A y \in m : x <= y
            IN  <<SubSeq(s, start, j - 1)>> \o split_from(s, pat, j + Len(pat))

split(s, pat) == split_from(s, pat, 1)

RECURSIVE Concat(_)
Concat(seqs) == IF seqs = <<>> THEN <<>> ELSE Head(seqs) \o Concat(Tail(seqs))

\* str::replace(pat, ""): the non-overlapping matches, left to right, removed;
\* what stays are the pieces between them.
replace(s, pat) == Concat(split(s, pat))

\* '=' of base64 padding
BASE64_PAD == 61

\* Value of a character of the standard base64 alphabet, -1 for any other.
base64_value(c) ==
    IF c >= 65 /\ c <= 90 THEN c - 65
    ELSE IF c >= 97 /\ c <= 122 THEN c - 97 + 26
    ELSE IF c >= 48 /\ c <= 57 THEN c - 48 + 52
    ELSE IF c = 43 THEN 62
    ELSE IF c = 47 THEN 63
    ELSE -1

\* Character of a 6-bit value in the standard base64 alphabet.
base64_char(v) ==
    IF v < 26 THEN 65 + v
    ELSE IF v < 52 THEN 97 + (v - 26)
    ELSE IF v < 62 THEN 48 + (v - 52)
    ELSE IF v = 62 THEN 43
    ELSE 47

\* Number of trailing '=' of s (at most 2 are looked at).
base64_padding(s) ==
    IF Len(s) >= 1 /\ s[Len(s)] = BASE64_PAD
    THEN IF Len(s) >= 2 /\ s[Len(s) - 1] = BASE64_PAD THEN 2 ELSE 1
    ELSE 0

\* Bytes of the complete 4-symbol groups of the 6-bit values v.
base64_groups(v) ==
    [ i \in 1 .. 3 * (Len(v) \div 4) |->
        LET g == (i - 1) \div 3
            a == v[4 * g + 1]
            b == v[4 * g + 2]
            c == v[4 * g + 3]
            d == v[4 * g + 4]
        IN  CASE (i - 1) % 3 = 0 -> 4 * a + (b \div 16)
              [] (i - 1) % 3 = 1 -> 16 * (b % 16) + (c \div 4)
              [] OTHER -> 64 * (c % 4) + d ]

\* base64::decode with the standard alphabet: [ok, bytes].  Padding, when
\* present, must complete the last group; the bits of the last symbol that
\* belong to no byte must be zero.
base64_decode(s) ==
    LET pad == base64_padding(s)
        n == Len(s) - pad
        v == [i \in 1 .. n |-> base64_value(s[i])]
        full == n \div 4
        r == n % 4
    IN  IF \E i \in 1 .. n : v[i] < 0 THEN [ok |-> FALSE]
        ELSE IF r = 1 THEN [ok |-> FALSE]
        ELSE IF pad > 0 /\ (n + pad) % 4 # 0 THEN [ok |-> FALSE]
        ELSE IF r = 0 /\ pad > 0 THEN [ok |-> FALSE]
        ELSE IF r = 2 /\ v[n] % 16 # 0 THEN [ok |-> FALSE]
        ELSE IF r = 3 /\ v[n] % 4 # 0 THEN [ok |-> FALSE]
        ELSE
            LET head == base64_groups(SubSeq(v, 1, 4 * full))
                tail == IF r = 2 THEN <<4 * v[n - 1] + (v[n] \div 16)>>
                        ELSE IF r = 3
                        THEN <<4 * v[n - 2] + (v[n - 1] \div 16),
                               16 * (v[n - 1] % 16) + (v[n] \div 4)>>
                        ELSE <<>>
            IN  [ok |-> TRUE, bytes |-> head \o tail]

\* The elements of seq that satisfy Keep, in order.
RECURSIVE FilterSeq(_, _, _)
FilterSeq(seq, Keep(_), i) ==
    IF i > Len(seq) THEN <<>>
    ELSE (IF Keep(seq[i]) THEN <<seq[i]>> ELSE <<>>) \o FilterSeq(seq, Keep, i + 1)

\* The fragments extract_certs splits the chain into (before the filters).
cert_fragments(cert_chain) ==
    LET certs_concat0 == from_utf8_lossy(cert_chain)
        certs_concat1 == SelectSeq(certs_concat0, LAMBDA c : c # NEWLINE)
        certs_concat2 == replace(certs_concat1, BEGIN_CERTIFICATE)
    IN  split(certs_concat2, END_CERTIFICATE)

\* Mutant: a fragment that fails to decode ends the extraction.
extract_certs_until_failure(cert_chain) ==
    LET parts == cert_fragments(cert_chain)
        NonEmpty(p) == Len(p) > 0
        filled == FilterSeq(parts, NonEmpty, 1)
        failing == {i \in 1 .. Len(filled) : ~base64_decode(filled[i]).ok}
        last == IF failing = {} THEN Len(filled)
                ELSE (CHOOSE i \in failing : \A j \in failing : i <= j) - 1
    IN  [i \in 1 .. last |-> base64_decode(filled[i]).bytes]

\* extract_certs
extract_certs(cert_chain) ==
    LET parts == cert_fragments(cert_chain)
        NonEmpty(p) == Len(p) > 0
        Decodes(p) == base64_decode(p).ok
        kept == FilterSeq(FilterSeq(parts, NonEmpty, 1), Decodes, 1)
    IN  [i \in 1 .. Len(kept) |-> base64_decode(kept[i]).bytes]

---------------------------------------------------------------------------
(* ASN.1 encoding of a raw ECDSA signature *)

\* der::asn1::UIntRef: the big-endian bytes without leading zeroes (one byte
\* is always kept).
RECURSIVE strip_leading_zeroes(_)
strip_leading_zeroes(bytes) ==
    IF Len(bytes) > 1 /\ bytes[1] = 0 THEN strip_leading_zeroes(Tail(bytes))
    ELSE bytes

\* Mutant: no 0x00 is written before a set top bit.
der_uint_without_sign_octet(bytes) == <<2, Len(strip_leading_zeroes(bytes))>> \o strip_leading_zeroes(bytes)

\* DER of an unsigned INTEGER: tag 0x02, length, a 0x00 before a set top bit.
der_uint(bytes) ==
    LET inner == strip_leading_zeroes(bytes)
        content == IF inner[1] >= 128 THEN <<0>> \o inner ELSE inner
    IN  <<2, Len(content)>> \o content

\* Mutant: a buffer sized without the 0x00 before a set top bit.
ASN1_BUFFER_SIZE_WITHOUT_SIGN_OCTETS == 2 + 2 * (32 + 2)

\* Size of the buffer as_asn1 writes into
ASN1_BUFFER_SIZE == 72

\* as_asn1: [kind, bytes]; "panic" is the expect on a full SliceWriter.
as_asn1_checked(data) ==
    IF Len(data) # 64 THEN [kind |-> "ok", bytes |-> <<>>]
    ELSE
        LET content == der_uint(Slice(data, 0, 32)) \o der_uint(Slice(data, 32, 64))
            encoded == <<48, Len(content)>> \o content
        IN  IF Len(encoded) > ASN1_BUFFER_SIZE THEN [kind |-> "panic"]
            ELSE [kind |-> "ok", bytes |-> encoded]

as_asn1(data) == as_asn1_checked(data).bytes

\* Left-pad a big-endian number to n bytes.
pad_left(bytes, n) == Fill(n - Len(bytes), 0) \o bytes

\* Reading a DER SEQUENCE of two INTEGERs back (the verifier's side):
\* [ok, r, s], the numbers left-padded to 32 bytes.
parse_asn1_sequence_of_two_uints(der) ==
    IF Len(der) < 2 \/ der[1] # 48 \/ der[2] # Len(der) - 2 THEN [ok |-> FALSE]
    ELSE
        LET c == Slice(der, 2, Len(der))
        IN  IF Len(c) < 2 \/ c[1] # 2 \/ c[2] < 1 \/ 2 + c[2] > Len(c) THEN [ok |-> FALSE]
            ELSE
                LET ri == Slice(c, 2, 2 + c[2])
                    d == Slice(c, 2 + c[2], Len(c))
                IN  IF Len(d) < 2 \/ d[1] # 2 \/ d[2] < 1 \/ 2 + d[2] # Len(d)
                    THEN [ok |-> FALSE]
                    ELSE
                        LET si == Slice(d, 2, Len(d))
                            rv == strip_leading_zeroes(ri)
                            sv == strip_leading_zeroes(si)
                        IN  IF ri[1] >= 128 \/ si[1] >= 128 \/ Len(rv) > 32 \/ Len(sv) > 32
                            THEN [ok |-> FALSE]
                            ELSE [ok |-> TRUE, r |-> pad_left(rv, 32), s |-> pad_left(sv, 32)]

---------------------------------------------------------------------------
(* Idealised cryptography of the external crates *)

\* Sum of i * m[i] over the bytes lo .. hi of m.
RECURSIVE WeightedSum(_, _, _)
WeightedSum(m, lo, hi) ==
    IF lo > hi THEN 0
    ELSE IF lo = hi THEN lo * m[lo]
    ELSE LET mid == (lo + hi) \div 2
         IN  WeightedSum(m, lo, mid) + WeightedSum(m, mid + 1, hi)

\* ring::digest::digest(&SHA256, m): 32 bytes.  The idealisation carries the
\* position-weighted byte sum and the length, so that two messages differing
\* in one byte, or in length, never collide.
sha256(m) ==
    u32_to_le_bytes(WeightedSum(m, 1, Len(m))) \o u16_to_le_bytes(Len(m)) \o Fill(26, 0)

\* The one raw signature r || s that verifies for message msg under the key
\* whose public part is pk.
ecdsa_sign(pk, msg) == sha256(msg) \o sha256(pk)

\* signature::UnparsedPublicKey::new(&ECDSA_P256_SHA256_FIXED, pk).verify
ecdsa_verify_fixed(pk, msg, sig) == sig = ecdsa_sign(pk, msg)

\* EndEntityCert::verify_signature(&ECDSA_P256_SHA256, msg, der)
ecdsa_verify_asn1(pk, msg, der) ==
    LET p == parse_asn1_sequence_of_two_uints(der)
    IN  p.ok /\ p.r \o p.s = ecdsa_sign(pk, msg)

\* The one RSA PKCS#1 signature that verifies for message msg under the key
\* of the certificate pk.
rsa_sign(pk, msg) == sha256(msg) \o sha256(pk)

\* EndEntityCert::verify_signature(&RSA_PKCS1_2048_8192_SHA256, msg, sig)
rsa_verify(pk, msg, sig) == sig = rsa_sign(pk, msg)

\* Mutant: the verdict of the signature check is dropped.
verify_signature_ignored(entity_cert, data, signature, signature_algorithm) == "ok"

\* verify_signature: "ok" or the error tag
verify_signature(entity_cert, data, signature, signature_algorithm) ==
    LET verified == IF signature_algorithm = "ECDSA_P256_SHA256"
                    THEN ecdsa_verify_asn1(entity_cert, data, signature)
                    ELSE rsa_verify(entity_cert, data, signature)
    IN  IF verified THEN "ok" ELSE "bad signature"

\* Certificates of the DCAP path are three DER bytes <<role, notBefore,
\* notAfter>>, the validity in seconds since the epoch.  Roles: the PCK leaf
\* issued by the platform CA, the platform CA issued by the root, the root
\* itself (the pinned anchor DCAP_SERVER_ROOTS), and a leaf issued by a CA
\* that is not anchored.
ROLE_PCK_LEAF == 1
ROLE_PLATFORM_CA == 2
ROLE_ROOT_CA == 3
ROLE_FOREIGN_LEAF == 4

\* Certificates of the IAS path are nine DER bytes: the role, notBefore and
\* notAfter as little-endian u32 seconds.  Roles: the report signing
\* certificate issued by the pinned anchor IAS_SERVER_ROOTS, and a signing
\* certificate issued by another CA.
ROLE_IAS_SIGNING == 5
ROLE_FOREIGN_SIGNING == 6

\* webpki::EndEntityCert::from succeeds
cert_parses(der) ==
    \/ /\ Len(der) = 3
       /\ der[1] \in {ROLE_PCK_LEAF, ROLE_PLATFORM_CA, ROLE_ROOT_CA, ROLE_FOREIGN_LEAF}
    \/ /\ Len(der) = 9
       /\ der[1] \in {ROLE_IAS_SIGNING, ROLE_FOREIGN_SIGNING}

\* The certificate's validity window holds time (seconds), bounds included.
cert_valid_at(der, time) == der[2] <= time /\ time <= der[3]

\* EndEntityCert::verify_is_valid_tls_server_cert against DCAP_SERVER_ROOTS
verify_is_valid_tls_server_cert(leaf, intermediate_certs, time) ==
    /\ leaf[1] = ROLE_PCK_LEAF
    /\ cert_valid_at(leaf, time)
    /\ \E i \in 1 .. Len(intermediate_certs) :
          /\ cert_parses(intermediate_certs[i])
          /\ intermediate_certs[i][1] = ROLE_PLATFORM_CA
          /\ cert_valid_at(intermediate_certs[i], time)

\* The milliseconds of a second
MILLIS_PER_SECOND == 1000

\* Mutant: the time is rounded to the nearest second.
verify_certificate_chain_rounded(leaf_cert, intermediate_certs, verification_time_) ==
    IF ~cert_parses(leaf_cert)
    THEN [kind |-> "Err", err |-> "Failed to parse leaf certificate"]
    ELSE
        LET time == (verification_time_ + 500) \div MILLIS_PER_SECOND
        IN  IF ~verify_is_valid_tls_server_cert(leaf_cert, intermediate_certs, time)
            THEN [kind |-> "Err", err |-> "Invalid certificate chain"]
            ELSE [kind |-> "Ok", leaf_cert |-> leaf_cert]

\* verify_certificate_chain: [kind, err] or [kind, leaf_cert]
verify_certificate_chain(leaf_cert, intermediate_certs, verification_time_) ==
    IF ~cert_parses(leaf_cert)
    THEN [kind |-> "Err", err |-> "Failed to parse leaf certificate"]
    ELSE
        LET time == verification_time_ \div MILLIS_PER_SECOND
        IN  IF ~verify_is_valid_tls_server_cert(leaf_cert, intermediate_certs, time)
            THEN [kind |-> "Err", err |-> "Invalid certificate chain"]
            ELSE [kind |-> "Ok", leaf_cert |-> leaf_cert]

---------------------------------------------------------------------------
(* verify_dcap_quote *)

Err(tag) == [kind |-> "Err", err |-> tag]

Panic == [kind |-> "Panic"]

Ok(report) == [kind |-> "Ok", report |-> report]

\* Offsets verify_dcap_quote computes into the original buffer
attestation_key_offset ==
    DCAP_QUOTE_HEADER_SIZE + REPORT_SIZE + SIZE_OF_U32 + REPORT_SIGNATURE_SIZE

authentication_data_offset ==
    attestation_key_offset + ATTESTATION_KEY_SIZE + REPORT_SIZE + REPORT_SIGNATURE_SIZE
    + SIZE_OF_U16

\* Mutant: the QE report is taken to start where the attestation key does.
qe_report_offset_at_key == attestation_key_offset

qe_report_offset == attestation_key_offset + ATTESTATION_KEY_SIZE

\* Mutant: the trailing bytes are not looked at.
no_bytes_left_unchecked(dcap_quote_clone) == TRUE

\* ensure!(dcap_quote_clone.len() == 0, ..)
no_bytes_left(dcap_quote_clone) == Len(dcap_quote_clone) = 0

\* Mutant: the build mode is read from the QE report.
dcap_report_of_qe_report(q, verification_time_) ==
    [ mr_enclave |-> q.body.mr_enclave,
      status     |-> "Ok",
      pubkey     |-> Slice(q.body.report_data.d, 0, 32),
      timestamp  |-> verification_time_,
      build_mode |-> sgx_build_mode(q.quote_signature_data.qe_report) ]

\* The SgxReport verify_dcap_quote returns: xt_signer_array, ra_status and
\* the struct literal
dcap_report(q, verification_time_) ==
    [ mr_enclave |-> q.body.mr_enclave,
      status     |-> "Ok",
      pubkey     |-> Slice(q.body.report_data.d, 0, 32),
      timestamp  |-> verification_time_,
      build_mode |-> sgx_build_mode(q.body) ]

\* Mutant: the product id of the quoting enclave is compared as well.
ensure_policy_with_isvprodid(q, qe_) ==
    IF q.header.version # 3 THEN "Only support for version 3"
    ELSE IF q.header.attestation_key_type # 2 THEN "Only support for ECDSA-256"
    ELSE IF q.quote_signature_data.qe_certification_data.certification_data_type # 5
    THEN "Only support for PEM formatted PCK Cert Chain"
    ELSE IF \/ qe_.mrsigner # q.quote_signature_data.qe_report.mr_signer
            \/ qe_.isvprodid # q.quote_signature_data.qe_report.isv_prod_id
    THEN "mrenclave values for quoting enclave don't match"
    ELSE "ok"

\* Mutant: the key type is looked at before the version.
ensure_policy_key_type_first(q, qe_) ==
    IF q.header.attestation_key_type # 2 THEN "Only support for ECDSA-256"
    ELSE IF q.header.version # 3 THEN "Only support for version 3"
    ELSE IF q.quote_signature_data.qe_certification_data.certification_data_type # 5
    THEN "Only support for PEM formatted PCK Cert Chain"
    ELSE IF qe_.mrsigner # q.quote_signature_data.qe_report.mr_signer
    THEN "mrenclave values for quoting enclave don't match"
    ELSE "ok"

\* The four ensure! on the decoded quote and the expected quoting enclave:
\* "ok" or the tag of the first that fails
ensure_policy(q, qe_) ==
    IF q.header.version # 3 THEN "Only support for version 3"
    ELSE IF q.header.attestation_key_type # 2 THEN "Only support for ECDSA-256"
    ELSE IF q.quote_signature_data.qe_certification_data.certification_data_type # 5
    THEN "Only support for PEM formatted PCK Cert Chain"
    ELSE IF qe_.mrsigner # q.quote_signature_data.qe_report.mr_signer
    THEN "mrenclave values for quoting enclave don't match"
    ELSE "ok"

\* The steps of verify_dcap_quote after the certificate chain verified.
verify_dcap_quote_signed(dcap_quote_, dcap_quote_clone, q, leaf_cert, verification_time_) ==
    LET isv_end == DCAP_QUOTE_HEADER_SIZE + REPORT_SIZE
        key_end == attestation_key_offset + ATTESTATION_KEY_SIZE
        auth_end == authentication_data_offset + AUTHENTICATION_DATA_SIZE
        qe_end == qe_report_offset + REPORT_SIZE
    IN  IF ~InBounds(dcap_quote_, 0, isv_end) THEN Panic
        ELSE IF ~InBounds(dcap_quote_, attestation_key_offset, key_end) THEN Panic
        ELSE IF ~InBounds(dcap_quote_, authentication_data_offset, auth_end) THEN Panic
        ELSE
            LET isv_report_slice == Slice(dcap_quote_, 0, isv_end)
                hash_data == Slice(dcap_quote_, attestation_key_offset, key_end)
                             \o Slice(dcap_quote_, authentication_data_offset, auth_end)
                hash == sha256(hash_data)
            IN  IF hash # Slice(q.quote_signature_data.qe_report.report_data.d, 0, 32)
                THEN Err("Hashes must match")
                ELSE IF ~InBounds(dcap_quote_, qe_report_offset, qe_end) THEN Panic
                ELSE
                    LET qe_report_slice == Slice(dcap_quote_, qe_report_offset, qe_end)
                        pub_key == <<4>> \o q.quote_signature_data.ecdsa_attestation_key
                    IN  IF ~ecdsa_verify_fixed(pub_key, isv_report_slice,
                                q.quote_signature_data.isv_enclave_report_signature)
                        THEN Err("Failed to verify report signature")
                        ELSE
                            LET asn1 == as_asn1_checked(
                                            q.quote_signature_data.qe_report_signature)
                            IN  IF asn1.kind = "panic" THEN Panic
                                ELSE IF verify_signature(leaf_cert, qe_report_slice,
                                                         asn1.bytes,
                                                         "ECDSA_P256_SHA256") # "ok"
                                THEN Err("bad signature")
                                ELSE IF ~no_bytes_left(dcap_quote_clone)
                                THEN Err("There should be no bytes left over after decoding")
                                ELSE Ok(dcap_report(q, verification_time_))

\* verify_dcap_quote on a build whose usize has the given width
verify_dcap_quote(dcap_quote_, verification_time_, qe_, bits) ==
    LET dec == DcapQuote_decode(dcap_quote_, bits)
    IN  IF dec.kind = "panic" THEN Panic
        ELSE IF dec.kind = "err" THEN Err("Failed to decode attestation report")
        ELSE
            LET q == dec.q
            IN  IF ensure_policy(q, qe_) # "ok" THEN Err(ensure_policy(q, qe_))
                ELSE
                    LET certs == extract_certs(
                            q.quote_signature_data.qe_certification_data.certification_data)
                    IN  IF 3 # Len(certs)
                        THEN Err("Certificate chain must have 3 certificates")
                        ELSE
                            LET chain == verify_certificate_chain(
                                    certs[1], Slice(certs, 1, Len(certs)), verification_time_)
                            IN  IF chain.kind = "Err" THEN Err(chain.err)
                                ELSE verify_dcap_quote_signed(dcap_quote_, dec.rest, q,
                                        chain.leaf_cert, verification_time_)

---------------------------------------------------------------------------
(* Inputs: quotes laid out as the source's structures are encoded *)

\* Bounds of the model
MaxTrailing == 1
MaxAppend == 1
MaxAppendByte == 1

\* Encoding of an SgxReportBody
MkReportBody(flags, mr_enclave, mr_signer, report_data) ==
    Fill(16, 3) \o Fill(4, 0) \o Fill(SGX_REPORT_BODY_RESERVED1_BYTES, 0) \o Fill(16, 0)
    \o flags \o Fill(8, 0) \o mr_enclave \o Fill(SGX_REPORT_BODY_RESERVED2_BYTES, 0)
    \o mr_signer \o Fill(SGX_REPORT_BODY_RESERVED3_BYTES, 0) \o Fill(64, 0)
    \o u16_to_le_bytes(1) \o u16_to_le_bytes(2) \o u16_to_le_bytes(0)
    \o Fill(SGX_REPORT_BODY_RESERVED4_BYTES, 0) \o Fill(16, 0) \o report_data

\* Encoding of a DcapQuoteHeader
MkHeader(version, attestation_key_type) ==
    u16_to_le_bytes(version) \o u16_to_le_bytes(attestation_key_type) \o Fill(4, 0)
    \o u16_to_le_bytes(5) \o u16_to_le_bytes(10) \o Fill(16, 147) \o Fill(20, 0)

\* base64 of a three-byte certificate
base64_encode3(b) ==
    << base64_char(b[1] \div 4),
       base64_char(16 * (b[1] % 4) + (b[2] \div 16)),
       base64_char(4 * (b[2] % 16) + (b[3] \div 64)),
       base64_char(b[3] % 64) >>

\* One PEM block: with markers and line ends, or the bare form that
\* extract_certs accepts as well.
PemBlock(der, bare) ==
    IF bare THEN base64_encode3(der) \o END_CERTIFICATE
    ELSE BEGIN_CERTIFICATE \o <<NEWLINE>> \o base64_encode3(der) \o <<NEWLINE>>
         \o END_CERTIFICATE \o <<NEWLINE>>

RECURSIVE PemChain(_, _)
PemChain(ders, bare) ==
    IF ders = <<>> THEN <<>>
    ELSE PemBlock(Head(ders), bare) \o PemChain(Tail(ders), bare)

\* The chains the inputs carry: validity windows in seconds
PckLeaf == <<ROLE_PCK_LEAF, 1, 3>>
PlatformCa == <<ROLE_PLATFORM_CA, 1, 3>>
RootCa == <<ROLE_ROOT_CA, 0, 200>>

ChainKinds == {"good", "two", "unparsable", "foreign"}

ChainOf(kind) ==
    CASE kind = "good" -> <<PckLeaf, PlatformCa, RootCa>>
      [] kind = "two" -> <<PckLeaf, PlatformCa>>
      [] kind = "unparsable" -> <<<<0, 1, 3>>, PlatformCa, RootCa>>
      [] kind = "foreign" -> <<<<ROLE_FOREIGN_LEAF, 1, 3>>, PlatformCa, RootCa>>

\* A signature that does not verify: the valid one with its first byte changed.
Corrupt(sig) == [sig EXCEPT ![1] = (sig[1] + 1) % 256]

\* The quote described by d:
\*   version, key_type, cert_type, qe_signer (fill of the QE report's mr_signer),
\*   chain, bare, auth (the authentication data), binding ("auth": the QE
\*   report binds key || authentication data, "raw": it binds key || the 32
\*   bytes behind the size field, "none": it binds nothing), isv_sig_ok,
\*   qe_sig_ok, flags0, enclave, trailing (bytes after the quote)
MkDcapQuote(d) ==
    LET header == MkHeader(d.version, d.key_type)
        body == MkReportBody(<<d.flags0, 0, 0, 0, 0, 0, 0, 0>>, Fill(32, d.enclave),
                             Fill(32, 5), Fill(32, 17) \o Fill(32, 18))
        key == Fill(ATTESTATION_KEY_SIZE, 33)
        pem == PemChain(ChainOf(d.chain), d.bare)
        cert_block == u16_to_le_bytes(d.cert_type) \o u32_to_le_bytes(Len(pem)) \o pem
        behind == d.auth \o cert_block
        bound == CASE d.binding = "auth" -> sha256(key \o d.auth)
                   [] d.binding = "raw" ->
                        sha256(key \o SubSeq(behind, 1, AUTHENTICATION_DATA_SIZE))
                   [] OTHER -> Fill(32, 0)
        qe_report == MkReportBody(Fill(8, 0), Fill(32, 6), Fill(32, d.qe_signer),
                                  bound \o Fill(32, 0))
        leaf == ChainOf(d.chain)[1]
        qe_sig == ecdsa_sign(leaf, qe_report)
        isv_sig == ecdsa_sign(<<4>> \o key, header \o body)
        block == (IF d.isv_sig_ok THEN isv_sig ELSE Corrupt(isv_sig)) \o key \o qe_report
                 \o (IF d.qe_sig_ok THEN qe_sig ELSE Corrupt(qe_sig))
                 \o u16_to_le_bytes(Len(d.auth)) \o behind
    IN  header \o body \o u32_to_le_bytes(Len(block)) \o block \o Fill(d.trailing, 0)

\* The QuotingEnclave the caller holds; verify_dcap_quote reads its mrsigner.
MkQuotingEnclave(signer) ==
    [ issue_date |-> 0, next_update |-> 10, miscselect |-> Fill(4, 0),
      miscselect_mask |-> Fill(4, 255), attributes |-> Fill(16, 0),
      attributes_mask |-> Fill(16, 255), mrsigner |-> Fill(32, signer),
      isvprodid |-> 1, tcb |-> <<6>> ]

GoodDesc ==
    [ version |-> 3, key_type |-> 2, cert_type |-> 5, qe_signer |-> 1, chain |-> "good",
      bare |-> FALSE, auth |-> Fill(32, 7), binding |-> "auth", isv_sig_ok |-> TRUE,
      qe_sig_ok |-> TRUE, flags0 |-> 0, enclave |-> 4, trailing |-> 0 ]

\* A time inside every certificate's validity, in milliseconds
GoodTime == 2500

\* Every combination of passing and failing checks
CheckDescs ==
    { [GoodDesc EXCEPT !.version = v, !.key_type = k, !.cert_type = c, !.qe_signer = s,
                       !.chain = ch, !.binding = b, !.isv_sig_ok = i, !.qe_sig_ok = g,
                       !.trailing = t] :
        v \in {3, 2}, k \in {2, 3}, c \in {5, 1}, s \in {1, 9}, ch \in ChainKinds,
        b \in {"auth", "none"}, i \in BOOLEAN, g \in BOOLEAN, t \in 0 .. MaxTrailing }

\* Authentication data of other sizes, bound either way; both PEM forms
AuthSizes == {0, 16, 32, 33, 64}

AuthDescs ==
    { [GoodDesc EXCEPT !.auth = Fill(n, 7), !.binding = b, !.bare = p, !.trailing = t,
                       !.flags0 = f] :
        n \in AuthSizes, b \in {"auth", "raw"}, p \in BOOLEAN, t \in 0 .. MaxTrailing,
        f \in {0, 2} }

\* Verification times around the certificates' validity, in milliseconds
Times == {0, 999, 1000, 1001, 2500, 3000, 3999, 4000}

\* Prefixes of a good quote, and quotes whose certification data announces
\* more than follows
GoodQuote == MkDcapQuote(GoodDesc)

PrefixLengths ==
    {0, 1, 47, 48, 431, 432} \cup (DCAP_FIXED_PART - 1 .. DCAP_FIXED_PART + 42)
    \cup {Len(GoodQuote) - 1}

SizeFields == {<<255, 255, 255, 255>>, <<0, 0, 0, 128>>, <<255, 255, 255, 127>>,
               <<0, 1, 0, 0>>, <<0, 0, 0, 0>>}

RawQuotes ==
    { SubSeq(GoodQuote, 1, n) : n \in PrefixLengths }
    \cup { SubSeq(GoodQuote, 1, DCAP_FIXED_PART) \o u16_to_le_bytes(Len(a)) \o a
           \o u16_to_le_bytes(5) \o sz \o Fill(t, 45) :
             a \in {<<>>, Fill(32, 7)}, sz \in SizeFields, t \in {0, 40} }

DcapInputs ==
    { [quote |-> MkDcapQuote(d), time |-> GoodTime, qe |-> MkQuotingEnclave(1)] :
        d \in CheckDescs \cup AuthDescs }
    \cup { [quote |-> GoodQuote, time |-> t, qe |-> MkQuotingEnclave(1)] : t \in Times }
    \cup { [quote |-> r, time |-> GoodTime, qe |-> MkQuotingEnclave(1)] : r \in RawQuotes }

---------------------------------------------------------------------------
(* The state machine of the DCAP entry point *)

InitDcap ==
    /\ op = "verify_dcap_quote"
    /\ pc = "call"
    /\ usize_bits \in {32, 64}
    /\ \E inp \in DcapInputs :
          /\ dcap_quote = inp.quote
          /\ verification_time = inp.time
          /\ qe = inp.qe
    /\ origin = "fresh"
    /\ base = <<>>
    /\ arg = <<>>
    /\ result = [kind |-> "None"]

\* The call of verify_dcap_quote
VerifyDcapQuote ==
    /\ op = "verify_dcap_quote"
    /\ pc = "call"
    /\ result' = verify_dcap_quote(dcap_quote, verification_time, qe, usize_bits)
    /\ pc' = "done"
    /\ UNCHANGED <<op, usize_bits, dcap_quote, verification_time, qe, origin, base, arg>>

\* The caller submits an accepted quote again with bytes appended.
AppendBytes ==
    /\ op = "verify_dcap_quote"
    /\ pc = "done"
    /\ origin = "fresh"
    /\ result.kind = "Ok"
    /\ \E n \in 1 .. MaxAppend, v \in 0 .. MaxAppendByte :
          dcap_quote' = dcap_quote \o Fill(n, v)
    /\ base' = dcap_quote
    /\ origin' = "appended"
    /\ pc' = "call"
    /\ result' = [kind |-> "None"]
    /\ UNCHANGED <<op, usize_bits, verification_time, qe, arg>>

NextDcap == VerifyDcapQuote \/ AppendBytes

\* The byte positions the two signatures protect and the signatures
\* themselves: header and ISV report body, isv_enclave_report_signature, QE
\* report, qe_report_signature
SignedPositions ==
    LET isv_end == DCAP_QUOTE_HEADER_SIZE + REPORT_SIZE
        sig_start == isv_end + SIZE_OF_U32
        qe_start == sig_start + REPORT_SIGNATURE_SIZE + ATTESTATION_KEY_SIZE
    IN  (0 .. isv_end - 1)
        \cup (sig_start .. sig_start + REPORT_SIGNATURE_SIZE - 1)
        \cup (qe_start .. qe_start + REPORT_SIZE + REPORT_SIGNATURE_SIZE - 1)

\* The bits of a byte
FlipBits == 0 .. 7

\* The accepted quotes the bit flips start from
FlipInputs ==
    { [quote |-> MkDcapQuote([GoodDesc EXCEPT !.flags0 = 2]), time |-> GoodTime,
       qe |-> MkQuotingEnclave(1)] }

InitFlip ==
    /\ op = "verify_dcap_quote"
    /\ pc = "call"
    /\ usize_bits \in {32, 64}
    /\ \E inp \in FlipInputs :
          /\ dcap_quote = inp.quote
          /\ verification_time = inp.time
          /\ qe = inp.qe
    /\ origin = "fresh"
    /\ base = <<>>
    /\ arg = <<>>
    /\ result = [kind |-> "None"]

\* The caller submits an accepted quote again with one bit of a signed region
\* changed.
FlipBit ==
    /\ op = "verify_dcap_quote"
    /\ pc = "done"
    /\ origin = "fresh"
    /\ result.kind = "Ok"
    /\ \E i \in SignedPositions, k \in FlipBits :
          dcap_quote' = [dcap_quote EXCEPT ![i + 1] = FlipBitOfByte(@, k)]
    /\ base' = dcap_quote
    /\ origin' = "flipped"
    /\ pc' = "call"
    /\ result' = [kind |-> "None"]
    /\ UNCHANGED <<op, usize_bits, verification_time, qe, arg>>

NextFlip == VerifyDcapQuote \/ FlipBit

SpecFlip == InitFlip /\ [][NextFlip]_vars

SpecDcap == InitDcap /\ [][NextDcap]_vars

---------------------------------------------------------------------------
(* sgx_build_mode on its own *)

MaxFlagsLow == 7

\* Report bodies whose flags, xfrm and neighbouring fields vary
BuildModeInputs ==
    { [ MkReportBody(<<lo, mid, 0, 0, 0, 0, 0, top>>, Fill(32, 4), Fill(32, 5), Fill(64, 2))
        EXCEPT ![48] = before, ![57] = xfrm ] :
        lo \in 0 .. MaxFlagsLow, mid \in {0, 2, 255}, top \in {0, 2, 128},
        before \in {0, 2}, xfrm \in {0, 2} }

InitBuildMode ==
    /\ op = "sgx_build_mode"
    /\ pc = "call"
    /\ usize_bits \in {32, 64}
    /\ arg \in BuildModeInputs
    /\ dcap_quote = <<>>
    /\ verification_time = 0
    /\ qe = <<>>
    /\ origin = "fresh"
    /\ base = <<>>
    /\ result = [kind |-> "None"]

\* The call of SgxReportBody::sgx_build_mode on the decoded body
SgxBuildMode ==
    /\ op = "sgx_build_mode"
    /\ pc = "call"
    /\ result' = [kind |-> "Ok", build_mode |-> sgx_build_mode(SgxReportBody_decode(arg))]
    /\ pc' = "done"
    /\ UNCHANGED <<op, usize_bits, dcap_quote, verification_time, qe, origin, base, arg>>

NextBuildMode == SgxBuildMode

SpecBuildMode == InitBuildMode /\ [][NextBuildMode]_vars

\* C7: the build mode is Debug exactly when bit 1 of the flags (the second
\* bit of their lowest byte, at offset 48 of the body) is set, whatever the
\* other bits and fields are; otherwise it is Production.
C7_DebugIffFlagBit ==
    (op = "sgx_build_mode" /\ pc = "done") =>
        result.build_mode = (IF (arg[49] \div 2) % 2 = 1 THEN "Debug" ELSE "Production")

\* C7 witness: Debug is returned for flags with other bits set too, in both
\* the lowest byte and the highest.
C7_Witness ==
    /\ op = "sgx_build_mode" /\ pc = "done"
    /\ result.build_mode = "Debug"
    /\ arg[49] = 7
    /\ arg[56] = 128

---------------------------------------------------------------------------
(* The checks of verify_dcap_quote, stated on the state *)

\* Outcome of each check on a decoded quote, in the order of the
\* specification: version, key type, certification data type, mrsigner,
\* certificate count, chain, hash, ISV signature, QE signature, no trailing
\* bytes.  The ranges are those of the wire layout.
CheckResults(dq, time, qe_, dec) ==
    LET sig == dec.q.quote_signature_data
        certs == extract_certs(sig.qe_certification_data.certification_data)
    IN  << dec.q.header.version = 3,
           dec.q.header.attestation_key_type = 2,
           sig.qe_certification_data.certification_data_type = 5,
           qe_.mrsigner = sig.qe_report.mr_signer,
           Len(certs) = 3,
           /\ Len(certs) >= 1
           /\ cert_parses(certs[1])
           /\ verify_is_valid_tls_server_cert(certs[1], Tail(certs), time \div 1000),
           /\ Len(dq) >= 1046
           /\ sha256(Slice(dq, 500, 564) \o Slice(dq, 1014, 1046))
                = Slice(sig.qe_report.report_data.d, 0, 32),
           ecdsa_verify_fixed(<<4>> \o sig.ecdsa_attestation_key, Slice(dq, 0, 432),
                              sig.isv_enclave_report_signature),
           /\ Len(certs) >= 1
           /\ ecdsa_verify_asn1(certs[1], Slice(dq, 564, 948),
                                as_asn1(sig.qe_report_signature)),
           dec.rest = <<>> >>

\* The tags of the checks, in the same order
CheckTags ==
    << {"Only support for version 3"},
       {"Only support for ECDSA-256"},
       {"Only support for PEM formatted PCK Cert Chain"},
       {"mrenclave values for quoting enclave don't match"},
       {"Certificate chain must have 3 certificates"},
       {"Failed to parse leaf certificate", "Invalid certificate chain"},
       {"Hashes must match"},
       {"Failed to verify report signature"},
       {"bad signature"},
       {"There should be no bytes left over after decoding"} >>

\* Index of the first FALSE of a sequence of outcomes, 0 when there is none
FirstFailing(checks) ==
    LET failing == {i \in 1 .. Len(checks) : ~checks[i]}
    IN  IF failing = {} THEN 0 ELSE CHOOSE i \in failing : \A j \in failing : i <= j

Dec == DcapQuote_decode(dcap_quote, usize_bits)

Called == op = "verify_dcap_quote" /\ pc = "done"

\* C1: for every input that decodes, the error returned is the tag of the
\* first check that fails in the order version, key type, certification data
\* type, mrsigner, certificate count, chain, hash, ISV signature, QE signature,
\* trailing bytes; Ok is returned when none fails; no two checks share a tag.
C1_FirstFailingCheckDecides ==
    Called =>
        LET dec == Dec
        IN  dec.kind = "ok" =>
              LET k == FirstFailing(CheckResults(dcap_quote, verification_time, qe, dec))
              IN  /\ IF k = 0 THEN result.kind = "Ok"
                     ELSE result.kind = "Err" /\ result.err \in CheckTags[k]
                  /\ \A i, j \in 1 .. Len(CheckTags) :
                        i # j => CheckTags[i] \cap CheckTags[j] = {}

\* C1 witness: hash, QE signature and trailing-bytes checks all fail, the
\* earlier ones hold, and the hash tag is the one returned.
C1_Witness ==
    /\ Called
    /\ result = Err("Hashes must match")
    /\ LET dec == Dec
       IN  /\ dec.kind = "ok"
           /\ LET c == CheckResults(dcap_quote, verification_time, qe, dec)
              IN  c[5] /\ c[6] /\ ~c[7] /\ ~c[9] /\ ~c[10]

\* C2: Ok is returned exactly when every check held; in every other case an
\* error tag is returned (and so no SgxReport).
C2_OkIffAllChecksElseError ==
    Called =>
        LET dec == Dec
            all == /\ dec.kind = "ok"
                   /\ FirstFailing(CheckResults(dcap_quote, verification_time, qe, dec)) = 0
        IN  IF all THEN result.kind = "Ok" ELSE result.kind = "Err"

\* C3: an accepted quote with bytes appended is refused with the trailing
\* bytes tag.
C3_AppendedBytesRefused ==
    (Called /\ origin = "appended") =>
        result = Err("There should be no bytes left over after decoding")

\* C3 witness: the verdict on an accepted quote with bytes appended
C3_Witness ==
    /\ Called /\ origin = "appended"
    /\ Len(dcap_quote) > Len(base)
    /\ SubSeq(dcap_quote, 1, Len(base)) = base
    /\ verify_dcap_quote(base, verification_time, qe, usize_bits).kind = "Ok"

\* C4: a returned report has status Ok, the caller's time unchanged, the ISV
\* body's mr_enclave, the first 32 bytes of the ISV body's report_data, and
\* the build mode of the ISV body's flags.
C4_ReportFields ==
    (Called /\ result.kind = "Ok") =>
        LET body == Dec.q.body
        IN  /\ result.report.status = "Ok"
            /\ result.report.timestamp = verification_time
            /\ result.report.mr_enclave = body.mr_enclave
            /\ result.report.pubkey = SubSeq(body.report_data.d, 1, 32)
            /\ result.report.build_mode =
                  (IF (body.attributes.flags[1] \div 2) % 2 = 1
                   THEN "Debug" ELSE "Production")

\* C4 witness: an accepted quote of a debug enclave whose QE report is a
\* production one, at a time that is no whole second
C4_Witness ==
    /\ Called /\ result.kind = "Ok"
    /\ verification_time % 1000 # 0
    /\ LET q == Dec.q
       IN  /\ q.body.attributes.flags[1] = 2
           /\ q.quote_signature_data.qe_report.attributes.flags[1] = 0
           /\ q.body.mr_enclave # q.quote_signature_data.qe_report.mr_enclave

\* C6: an accepted quote with one bit changed in the header, the ISV report
\* body, the QE report or either signature is refused.
C6_FlippedBitRefused == (Called /\ origin = "flipped") => result.kind = "Err"

\* C6 witness: a bit of the QE report's reserved bytes was flipped in an
\* accepted quote and only the QE report signature tells.
C6_Witness ==
    /\ Called /\ origin = "flipped"
    /\ \E i \in 564 + 160 .. 564 + 191 : dcap_quote[i + 1] # base[i + 1]
    /\ verify_dcap_quote(base, verification_time, qe, usize_bits).kind = "Ok"
    /\ result = Err("bad signature")

\* C5: every call returns Ok or an error tag; none aborts.
C5_NeverAborts == Called => result.kind \in {"Ok", "Err"}

---------------------------------------------------------------------------
(* serde_json: the attestation report as a Value *)

\* '"' that delimits JSON strings
QUOTATION_MARK == 34

\* Value::Null, also what indexing a missing member gives
JsonNull == [t |-> "Null", s |-> <<>>]

IsDigit(c) == c >= 48 /\ c <= 57

\* The Value of the text x found where a member's value is no string:
\* null, true, false or an unsigned integer.
json_literal(x) ==
    IF x = <<110, 117, 108, 108>> THEN [ok |-> TRUE, v |-> JsonNull]
    ELSE IF x = <<116, 114, 117, 101>> \/ x = <<102, 97, 108, 115, 101>> THEN [ok |-> TRUE, v |-> [t |-> "Bool", s |-> x]]
    ELSE IF x # <<>> /\ (\A i \in 1 .. Len(x) : IsDigit(x[i])) /\ (Len(x) = 1 \/ x[1] # 48)
    THEN [ok |-> TRUE, v |-> [t |-> "Number", s |-> x]]
    ELSE [ok |-> FALSE]

\* The members of an object from its k-th piece on: parts are the pieces of
\* the text between quotation marks, parts[k] is a member's name.
RECURSIVE json_members(_, _)
json_members(parts, k) ==
    IF k + 1 > Len(parts) THEN [ok |-> FALSE]
    ELSE
        LET sep == parts[k + 1]
        IN  IF sep = <<58>>
            THEN \* a string value, then ',' or the closing '}'
                IF k + 3 > Len(parts) THEN [ok |-> FALSE]
                ELSE
                    LET m == [key |-> parts[k], value |-> [t |-> "String", s |-> parts[k + 2]]]
                        after == parts[k + 3]
                    IN  IF after = <<125>>
                        THEN IF k + 3 = Len(parts) THEN [ok |-> TRUE, members |-> <<m>>]
                             ELSE [ok |-> FALSE]
                        ELSE IF after = <<44>>
                        THEN LET r == json_members(parts, k + 4)
                             IN  IF r.ok THEN [ok |-> TRUE, members |-> <<m>> \o r.members]
                                 ELSE [ok |-> FALSE]
                        ELSE [ok |-> FALSE]
            ELSE \* ':', a literal, then ',' or the closing '}'
                IF Len(sep) < 3 \/ sep[1] # 58 THEN [ok |-> FALSE]
                ELSE
                    LET lit == json_literal(SubSeq(sep, 2, Len(sep) - 1))
                        last == sep[Len(sep)]
                    IN  IF ~lit.ok THEN [ok |-> FALSE]
                        ELSE
                            LET m == [key |-> parts[k], value |-> lit.v]
                            IN  IF last = 125
                                THEN IF k + 1 = Len(parts)
                                     THEN [ok |-> TRUE, members |-> <<m>>]
                                     ELSE [ok |-> FALSE]
                                ELSE IF last = 44
                                THEN LET r == json_members(parts, k + 2)
                                     IN  IF r.ok
                                         THEN [ok |-> TRUE, members |-> <<m>> \o r.members]
                                         ELSE [ok |-> FALSE]
                                ELSE [ok |-> FALSE]

\* serde_json::from_slice for the documents the model builds: a literal, or
\* one object whose members are strings and literals, written without white
\* space and without escapes.  [ok, members]; a value that is no object has
\* no members.
serde_json_from_slice(report_raw) ==
    LET parts == split(report_raw, <<QUOTATION_MARK>>)
    IN  IF Len(parts) = 1
        THEN IF report_raw = <<123, 125>> \/ json_literal(report_raw).ok
             THEN [ok |-> TRUE, members |-> <<>>]
             ELSE [ok |-> FALSE]
        ELSE IF parts[1] # <<123>> THEN [ok |-> FALSE]
        ELSE json_members(parts, 2)

\* &value[key]: the member of that name (the last one written wins), Null
\* when there is none.
json_index(value, key) ==
    LET at == {i \in 1 .. Len(value.members) : value.members[i].key = key}
    IN  IF at = {} THEN JsonNull
        ELSE value.members[CHOOSE i \in at : \A j \in at : j <= i].value

---------------------------------------------------------------------------
(* chrono: DateTime::parse_from_str(.., "%Y-%m-%dT%H:%M:%S%.f%z").timestamp() *)

\* How many digits s has in a row after its first i characters.
DigitRun(s, i) ==
    CHOOSE k \in 0 .. Len(s) - i :
        /\ \A j \in 1 .. k : IsDigit(s[i + j])
        /\ (i + k = Len(s) \/ ~IsDigit(s[i + k + 1]))

\* Value of the n decimal digits of s after its first i characters.
RECURSIVE DigitsValue(_, _, _)
DigitsValue(s, i, n) ==
    IF n = 0 THEN 0 ELSE 10 * DigitsValue(s, i, n - 1) + (s[i + n] - 48)

\* A numeric item: one to max digits, as many as there are.
scan_number(s, i, max) ==
    LET n == Min(DigitRun(s, i), max)
    IN  IF n = 0 THEN [ok |-> FALSE]
        ELSE [ok |-> TRUE, v |-> DigitsValue(s, i, n), next |-> i + n]

\* The numeric items of the format with the literal that follows each (0: none)
DATE_TIME_ITEMS ==
    << [max |-> 4, lit |-> 45], [max |-> 2, lit |-> 45], [max |-> 2, lit |-> 84],
       [max |-> 2, lit |-> 58], [max |-> 2, lit |-> 58], [max |-> 2, lit |-> 0] >>

RECURSIVE parse_numeric_items(_, _, _)
parse_numeric_items(s, i, items) ==
    IF items = <<>> THEN [ok |-> TRUE, v |-> <<>>, next |-> i]
    ELSE
        LET n == scan_number(s, i, Head(items).max)
            lit == Head(items).lit
        IN  IF ~n.ok THEN [ok |-> FALSE]
            ELSE IF lit # 0 /\ (n.next + 1 > Len(s) \/ s[n.next + 1] # lit)
            THEN [ok |-> FALSE]
            ELSE
                LET r == parse_numeric_items(s, IF lit = 0 THEN n.next ELSE n.next + 1,
                                             Tail(items))
                IN  IF r.ok THEN [ok |-> TRUE, v |-> <<n.v>> \o r.v, next |-> r.next]
                    ELSE [ok |-> FALSE]

\* %.f: nothing, or '.' and at least one digit; the digits beyond the ninth
\* are skipped.  The nanoseconds play no part in timestamp().
parse_fraction(s, i) ==
    IF i + 1 <= Len(s) /\ s[i + 1] = 46
    THEN LET n == DigitRun(s, i + 1)
         IN  IF n = 0 THEN [ok |-> FALSE] ELSE [ok |-> TRUE, next |-> i + 1 + n]
    ELSE [ok |-> TRUE, next |-> i]

\* %z: sign, two digits of hours, an optional ':', two digits of minutes
parse_timezone_offset(s, i) ==
    IF i + 3 > Len(s) \/ s[i + 1] \notin {43, 45} \/ ~IsDigit(s[i + 2]) \/ ~IsDigit(s[i + 3])
    THEN [ok |-> FALSE]
    ELSE
        LET j == IF i + 4 <= Len(s) /\ s[i + 4] = 58 THEN i + 4 ELSE i + 3
        IN  IF j + 2 > Len(s) \/ ~IsDigit(s[j + 1]) \/ ~IsDigit(s[j + 2]) \/ s[j + 1] > 53
            THEN [ok |-> FALSE]
            ELSE [ ok |-> TRUE,
                   offset |-> (IF s[i + 1] = 45 THEN -1 ELSE 1)
                              * (3600 * DigitsValue(s, i + 1, 2) + 60 * DigitsValue(s, j, 2)),
                   next |-> j + 2 ]

is_leap_year(y) == y % 4 = 0 /\ (y % 100 # 0 \/ y % 400 = 0)

days_in_month(y, m) ==
    IF m = 2 THEN (IF is_leap_year(y) THEN 29 ELSE 28)
    ELSE IF m \in {4, 6, 9, 11} THEN 30
    ELSE 31

\* Days from 1970-01-01 to the date y-m-d of the proleptic Gregorian calendar
days_from_civil(y, m, d) ==
    LET yy == IF m <= 2 THEN y - 1 ELSE y
        era == yy \div 400
        yoe == yy - era * 400
        doy == (153 * (IF m > 2 THEN m - 3 ELSE m + 9) + 2) \div 5 + d - 1
        doe == yoe * 365 + yoe \div 4 - yoe \div 100 + doy
    IN  era * 146097 + doe - 719468

SECONDS_PER_DAY == 86400

\* DateTime::parse_from_str(s, "%Y-%m-%dT%H:%M:%S%.f%z") and then timestamp():
\* [ok, timestamp], the seconds since 1970-01-01T00:00:00Z.  Second 60 is a
\* leap second and counts as second 59.
DateTime_parse_from_str(s) ==
    LET n == parse_numeric_items(s, 0, DATE_TIME_ITEMS)
    IN  IF ~n.ok THEN [ok |-> FALSE]
        ELSE
            LET f == parse_fraction(s, n.next)
            IN  IF ~f.ok THEN [ok |-> FALSE]
                ELSE
                    LET z == parse_timezone_offset(s, f.next)
                    IN  IF ~z.ok THEN [ok |-> FALSE]
                        ELSE IF z.next # Len(s) THEN [ok |-> FALSE]
                        ELSE
                            LET y == n.v[1]
                                m == n.v[2]
                                d == n.v[3]
                                h == n.v[4]
                                mi == n.v[5]
                                sec == n.v[6]
                            IN  IF \/ m < 1 \/ m > 12
                                   \/ d < 1 \/ d > days_in_month(y, m)
                                   \/ h > 23 \/ mi > 59 \/ sec > 60
                                THEN [ok |-> FALSE]
                                ELSE [ ok |-> TRUE,
                                       timestamp |->
                                           days_from_civil(y, m, d) * SECONDS_PER_DAY
                                           + 3600 * h + 60 * mi + Min(sec, 59) - z.offset ]

---------------------------------------------------------------------------
(* verify_ias_report *)

\* SgxQuote::decode: the fixed fields; the input may be longer.
SgxQuote_decode(input) ==
    IF Len(input) < SGX_QUOTE_SIZE THEN [ok |-> FALSE]
    ELSE [ ok |-> TRUE,
           q  |-> [ version       |-> u16_from_le_bytes(Slice(input, 0, 2)),
                    sign_type     |-> u16_from_le_bytes(Slice(input, 2, 4)),
                    epid_group_id |-> Slice(input, 4, 8),
                    qe_svn        |-> u16_from_le_bytes(Slice(input, 8, 10)),
                    pce_svn       |-> u16_from_le_bytes(Slice(input, 10, 12)),
                    xeid          |-> Slice(input, 12, 16),
                    basename      |-> Slice(input, 16, 48),
                    report_body   |-> SgxReportBody_decode(Slice(input, 48, SGX_QUOTE_SIZE)) ] ]

\* Mutant: a revoked group is reported as one that is out of date.
sgx_status_revoked_as_out_of_date(quote_status) ==
    IF quote_status = <<79, 75>> THEN "Ok"
    ELSE IF quote_status = <<71, 82, 79, 85, 80, 95, 79, 85, 84, 95, 79, 70, 95, 68, 65, 84, 69>> THEN "GroupOutOfDate"
    ELSE IF quote_status = <<71, 82, 79, 85, 80, 95, 82, 69, 86, 79, 75, 69, 68>> THEN "GroupOutOfDate"
    ELSE IF quote_status = <<67, 79, 78, 70, 73, 71, 85, 82, 65, 84, 73, 79, 78, 95, 78, 69, 69, 68, 69, 68>> THEN "ConfigurationNeeded"
    ELSE "Invalid"

\* parse_report: the match on isvEnclaveQuoteStatus
sgx_status(quote_status) ==
    IF quote_status = <<79, 75>> THEN "Ok"
    ELSE IF quote_status = <<71, 82, 79, 85, 80, 95, 79, 85, 84, 95, 79, 70, 95, 68, 65, 84, 69>> THEN "GroupOutOfDate"
    ELSE IF quote_status = <<71, 82, 79, 85, 80, 95, 82, 69, 86, 79, 75, 69, 68>> THEN "GroupRevoked"
    ELSE IF quote_status = <<67, 79, 78, 70, 73, 71, 85, 82, 65, 84, 73, 79, 78, 95, 78, 69, 69, 68, 69, 68>> THEN "ConfigurationNeeded"
    ELSE "Invalid"

\* Mutant: the sign of the seconds is dropped instead of refused.
timestamp_millis_magnitude(ra_timestamp_s) ==
    [ok |-> TRUE, v |-> (IF ra_timestamp_s < 0 THEN -ra_timestamp_s ELSE ra_timestamp_s) * 1000]

\* parse_report: (_ra_timestamp * 1000).try_into() of an i64 into a u64
timestamp_millis(ra_timestamp_s) ==
    [ok |-> ra_timestamp_s * 1000 >= 0, v |-> ra_timestamp_s * 1000]

\* Mutant: mr_enclave is read from the signer's measurement.
ias_report_of_signer(sgx_quote, ra_status, ra_timestamp) ==
    [ mr_enclave |-> sgx_quote.report_body.mr_signer,
      status     |-> ra_status,
      pubkey     |-> Slice(sgx_quote.report_body.report_data.d, 0, 32),
      timestamp  |-> ra_timestamp,
      build_mode |-> sgx_build_mode(sgx_quote.report_body) ]

\* parse_report: xt_signer_array and the SgxReport it returns
ias_report(sgx_quote, ra_status, ra_timestamp) ==
    [ mr_enclave |-> sgx_quote.report_body.mr_enclave,
      status     |-> ra_status,
      pubkey     |-> Slice(sgx_quote.report_body.report_data.d, 0, 32),
      timestamp  |-> ra_timestamp,
      build_mode |-> sgx_build_mode(sgx_quote.report_body) ]

KEY_TIMESTAMP == <<116, 105, 109, 101, 115, 116, 97, 109, 112>>
KEY_STATUS == <<105, 115, 118, 69, 110, 99, 108, 97, 118, 101, 81, 117, 111, 116, 101, 83, 116, 97, 116, 117, 115>>
KEY_BODY == <<105, 115, 118, 69, 110, 99, 108, 97, 118, 101, 81, 117, 111, 116, 101, 66, 111, 100, 121>>
UTC_OFFSET == <<43, 48, 48, 48, 48>>

parse_report(report_raw) ==
    LET attn_report == serde_json_from_slice(report_raw)
    IN  IF ~attn_report.ok THEN Err("RA report parsing error")
        ELSE
        LET time == json_index(attn_report, KEY_TIMESTAMP)
        IN  IF time.t # "String"
            THEN Err("Failed to fetch timestamp from attestation report")
            ELSE
            LET d == DateTime_parse_from_str(time.s \o UTC_OFFSET)
            IN  IF ~d.ok THEN Err("RA report timestamp parsing error")
                ELSE
                LET ra_timestamp == timestamp_millis(d.timestamp)
                    quote_status == json_index(attn_report, KEY_STATUS)
                    quote_raw == json_index(attn_report, KEY_BODY)
                IN  IF ~ra_timestamp.ok
                    THEN Err("Error converting report.timestamp to u64")
                    ELSE IF quote_status.t # "String"
                    THEN Err("Failed to fetch isvEnclaveQuoteStatus from attestation report")
                    ELSE IF quote_raw.t # "String"
                    THEN Err("Failed to parse isvEnclaveQuoteBody from attestation report")
                    ELSE
                    LET quote == base64_decode(quote_raw.s)
                    IN  IF ~quote.ok THEN Err("Quote Decoding Error")
                        ELSE
                        LET sgx_quote == SgxQuote_decode(quote.bytes)
                        IN  IF ~sgx_quote.ok THEN Err("could not decode quote")
                            ELSE Ok(ias_report(sgx_quote.q, sgx_status(quote_status.s),
                                               ra_timestamp.v))

\* '|' between the fields of the Netscape Comment
VERTICAL_LINE == 124

\* NetscapeComment::try_from: the comment of the certificate holds the raw
\* report, the base64 of the signature and the base64 of the signing
\* certificate, separated by '|'.  The certificate is its comment here, empty
\* when it has none.
NetscapeComment_try_from(cert) ==
    LET fields == split(cert, <<VERTICAL_LINE>>)
    IN  IF Len(fields) # 3 THEN Err("NetscapeComment::try_from")
        ELSE
            LET sig == base64_decode(fields[2])
                sig_cert == base64_decode(fields[3])
            IN  IF ~sig.ok \/ ~sig_cert.ok THEN Err("NetscapeComment::try_from")
                ELSE [ kind |-> "Ok", attestation_raw |-> fields[1],
                       sig |-> sig.bytes, sig_cert |-> sig_cert.bytes ]

\* verify_server_cert: the signing certificate is issued by IAS_SERVER_ROOTS
\* (no intermediate certificates) and valid at the given second.
verify_server_cert(sig_cert, timestamp_valid_until) ==
    IF /\ sig_cert[1] = ROLE_IAS_SIGNING
       /\ u32_from_le_bytes(Slice(sig_cert, 1, 5)) <= timestamp_valid_until
       /\ timestamp_valid_until <= u32_from_le_bytes(Slice(sig_cert, 5, 9))
    THEN "ok"
    ELSE "CA verification failed"

\* The instant at which the signing certificate is checked, seconds
IAS_VALID_UNTIL == 1573419050

verify_ias_report(cert_der) ==
    LET netscape == NetscapeComment_try_from(cert_der)
    IN  IF netscape.kind = "Err" THEN netscape
        ELSE IF ~cert_parses(netscape.sig_cert) THEN Err("Bad der")
        ELSE IF verify_signature(netscape.sig_cert, netscape.attestation_raw, netscape.sig,
                                 "RSA_PKCS1_2048_8192_SHA256") # "ok"
        THEN Err("bad signature")
        ELSE IF verify_server_cert(netscape.sig_cert, IAS_VALID_UNTIL) # "ok"
        THEN Err("CA verification failed")
        ELSE parse_report(netscape.attestation_raw)

---------------------------------------------------------------------------
(* Inputs of verify_ias_report *)

\* base64::encode: standard alphabet, padded
base64_encode(b) ==
    LET n == Len(b)
        at(i) == IF i <= n THEN b[i] ELSE 0
    IN  [ i \in 1 .. 4 * ((n + 2) \div 3) |->
            LET g == (i - 1) \div 4
                k == (i - 1) % 4
                x == at(3 * g + 1)
                y == at(3 * g + 2)
                z == at(3 * g + 3)
            IN  IF k >= 2 /\ 3 * g + k > n THEN BASE64_PAD
                ELSE base64_char(CASE k = 0 -> x \div 4
                                   [] k = 1 -> 16 * (x % 4) + (y \div 16)
                                   [] k = 2 -> 4 * (y % 16) + (z \div 64)
                                   [] OTHER -> z % 64) ]

\* The date of the day z days after 1970-01-01
civil_from_days(z) ==
    LET zz == z + 719468
        era == zz \div 146097
        doe == zz - era * 146097
        yoe == (doe - doe \div 1460 + doe \div 36524 - doe \div 146096) \div 365
        doy == doe - (365 * yoe + yoe \div 4 - yoe \div 100)
        mp == (5 * doy + 2) \div 153
        m == IF mp < 10 THEN mp + 3 ELSE mp - 9
    IN  [ y |-> yoe + era * 400 + (IF m <= 2 THEN 1 ELSE 0),
          m |-> m,
          d |-> doy - (153 * mp + 2) \div 5 + 1 ]

\* v written with w decimal digits, w at most 4
Digits(v, w) ==
    [ i \in 1 .. w |->
        48 + ((v \div (CASE w - i = 0 -> 1 [] w - i = 1 -> 10 [] w - i = 2 -> 100
                         [] OTHER -> 1000)) % 10) ]

\* The timestamp IAS writes for the instant secs seconds from the epoch, with
\* the sub-second digits frac: YYYY-MM-DDTHH:MM:SS[.f], no zone
FormatTimestamp(secs, frac) ==
    LET date == civil_from_days(secs \div SECONDS_PER_DAY)
        t == secs % SECONDS_PER_DAY
    IN  Digits(date.y, 4) \o <<45>> \o Digits(date.m, 2) \o <<45>> \o Digits(date.d, 2) \o <<84>>
        \o Digits(t \div 3600, 2) \o <<58>> \o Digits((t \div 60) % 60, 2) \o <<58>>
        \o Digits(t % 60, 2) \o frac

\* The days after the epoch up to which timestamps are written
MaxEpochDay == 2

\* Instants around the epoch, and one far from it
EpochSeconds ==
    {d * SECONDS_PER_DAY + t : d \in -2 .. MaxEpochDay, t \in {0, 43266, 86399}}
    \cup {2000000}

Fractions == {<<>>, <<46, 53>>, <<46, 57, 57, 57, 57, 57, 57, 57, 57, 57>>, <<46, 49, 50, 51, 52, 53, 54, 55, 56, 57, 48, 49, 50, 51>>}

TsFormatted(secs, frac) ==
    [k |-> "String", made |-> "formatted", secs |-> secs, frac |-> frac,
     s |-> FormatTimestamp(secs, frac)]

TsText(text) == [k |-> "String", made |-> "text", secs |-> 0, frac |-> <<>>, s |-> text]

TsOther(k) == [k |-> k, made |-> "none", secs |-> 0, frac |-> <<>>, s |-> <<>>]

\* Timestamps that are no instant, carry a zone of their own, or are written
\* in another way
TimestampTexts ==
    { <<49, 57, 55, 48, 45, 48, 50, 45, 51, 48, 84, 48, 48, 58, 48, 48, 58, 48, 48>>, <<49, 57, 55, 48, 45, 49, 51, 45, 48, 49, 84, 48, 48, 58, 48, 48, 58, 48, 48>>, <<49, 57, 55, 48, 45, 48, 49, 45, 48, 48, 84, 48, 48, 58, 48, 48, 58, 48, 48>>,
      <<49, 57, 55, 48, 45, 48, 49, 45, 48, 49, 84, 50, 52, 58, 48, 48, 58, 48, 48>>, <<49, 57, 55, 48, 45, 48, 49, 45, 48, 49, 84, 48, 48, 58, 54, 48, 58, 48, 48>>, <<49, 57, 55, 48, 45, 48, 49, 45, 48, 49, 84, 48, 48, 58, 48, 48, 58, 54, 49>>,
      <<49, 57, 55, 48, 45, 48, 49, 45, 48, 49, 84, 48, 48, 58, 48, 48, 58, 54, 48>>, <<49, 57, 55, 48, 45, 48, 49, 45, 48, 49, 84, 48, 48, 58, 48, 48, 58, 48, 48, 90>>, <<49, 57, 55, 48, 45, 48, 49, 45, 48, 49, 84, 48, 48, 58, 48, 48, 58, 48, 48, 43, 48, 49, 48, 48>>,
      <<49, 57, 55, 48, 45, 48, 49, 45, 48, 49, 32, 48, 48, 58, 48, 48, 58, 48, 48>>, <<49, 57, 55, 48, 45, 48, 49, 45, 48, 49, 84, 48, 48, 58, 48, 48, 58, 48, 48, 46>>, <<49, 57, 55, 48, 45, 49, 45, 50, 84, 51, 58, 52, 58, 53>>,
      <<49, 57, 54, 57, 45, 49, 50, 45, 51, 49, 84, 50, 51, 58, 53, 57, 58, 53, 57, 45>>, <<>> }

GoodTimestamp == TsFormatted(SECONDS_PER_DAY + 43266, <<46, 53>>)

Timestamps ==
    {TsFormatted(secs, frac) : secs \in EpochSeconds, frac \in Fractions}
    \cup {TsText(text) : text \in TimestampTexts}
    \cup {TsOther("Number"), TsOther("Missing")}

StatusStrings ==
    { <<79, 75>>, <<71, 82, 79, 85, 80, 95, 79, 85, 84, 95, 79, 70, 95, 68, 65, 84, 69>>, <<71, 82, 79, 85, 80, 95, 82, 69, 86, 79, 75, 69, 68>>, <<67, 79, 78, 70, 73, 71, 85, 82, 65, 84, 73, 79, 78, 95, 78, 69, 69, 68, 69, 68>>,
      <<83, 87, 95, 72, 65, 82, 68, 69, 78, 73, 78, 71, 95, 78, 69, 69, 68, 69, 68>>, <<83, 73, 71, 78, 65, 84, 85, 82, 69, 95, 73, 78, 86, 65, 76, 73, 68>>, <<111, 107>>, <<79, 75, 32>>, <<71, 82, 79, 85, 80, 95, 82, 69, 86, 79, 75, 69, 68, 95>>, <<>> }

Statuses ==
    {[k |-> "String", s |-> s] : s \in StatusStrings}
    \cup {[k |-> k, s |-> <<>>] : k \in {"Number", "Null", "Bool", "Missing"}}

\* Encoding of an SgxQuote
MkSgxQuote(report_body) ==
    u16_to_le_bytes(2) \o u16_to_le_bytes(1) \o <<80, 11, 0, 0>> \o u16_to_le_bytes(7)
    \o u16_to_le_bytes(9) \o Fill(4, 0) \o Fill(32, 0) \o report_body

\* The quote of an enclave with the flags given; the measurements and the
\* halves of report_data all differ.
IasQuote(flags) ==
    MkSgxQuote(MkReportBody(flags, [i \in 1 .. 32 |-> i], [i \in 1 .. 32 |-> 100 + i],
                            [i \in 1 .. 64 |-> 200 - i]))

QuoteBody(made, quote) ==
    [ k |-> "String", made |-> made, quote |-> quote,
      s |-> IF made = "bad_base64" THEN [base64_encode(quote) EXCEPT ![7] = 42]
            ELSE base64_encode(quote) ]

Bodies ==
    { QuoteBody("good", IasQuote(<<7, 0, 0, 0, 0, 0, 0, 0>>)),
      QuoteBody("good", IasQuote(<<5, 0, 0, 0, 0, 0, 0, 2>>)),
      QuoteBody("trailing", IasQuote(<<2, 0, 0, 0, 0, 0, 0, 0>>) \o <<1, 2, 3, 4>>),
      QuoteBody("truncated", SubSeq(IasQuote(<<7, 0, 0, 0, 0, 0, 0, 0>>), 1, SGX_QUOTE_SIZE - 1)),
      QuoteBody("bad_base64", IasQuote(<<7, 0, 0, 0, 0, 0, 0, 0>>)),
      [k |-> "Number", made |-> "none", quote |-> <<>>, s |-> <<>>],
      [k |-> "Missing", made |-> "none", quote |-> <<>>, s |-> <<>>] }

GoodBody == QuoteBody("good", IasQuote(<<7, 0, 0, 0, 0, 0, 0, 0>>))

\* The text of a member's value
JsonText(v) ==
    CASE v.k = "String" -> <<QUOTATION_MARK>> \o v.s \o <<QUOTATION_MARK>>
      [] v.k = "Number" -> <<52>>
      [] v.k = "Null" -> <<110, 117, 108, 108>>
      [] OTHER -> <<116, 114, 117, 101>>

\* The member of that name, none when the value is missing
Member(key, v) ==
    IF v.k = "Missing" THEN <<>>
    ELSE << <<QUOTATION_MARK>> \o key \o <<QUOTATION_MARK>> \o <<58>> \o JsonText(v) >>

RECURSIVE Join(_, _)
Join(seqs, sep) ==
    IF seqs = <<>> THEN <<>>
    ELSE IF Len(seqs) = 1 THEN seqs[1]
    ELSE seqs[1] \o sep \o Join(Tail(seqs), sep)

\* The attestation report IAS signs; "broken" lacks the closing brace.
MkReportJson(d) ==
    <<123>>
    \o Join( Member(<<105, 100>>, [k |-> "String", s |-> <<49>>])
             \o Member(KEY_TIMESTAMP, d.ts)
             \o Member(<<118, 101, 114, 115, 105, 111, 110>>, [k |-> "Number"])
             \o Member(KEY_STATUS, d.status)
             \o Member(KEY_BODY, d.body), <<44>> )
    \o (IF d.json = "ok" THEN <<125>> ELSE <<>>)

\* Validity of the signing certificates, seconds: holds the instant of the
\* check, ended before it, begins after it, is that instant alone
CertWindows ==
    { <<1500000000, 1600000000>>, <<1400000000, 1500000000>>,
      <<1600000000, 1700000000>>, <<IAS_VALID_UNTIL, IAS_VALID_UNTIL>> }

IasSigningCert(role, window) ==
    <<role>> \o u32_to_le_bytes(window[1]) \o u32_to_le_bytes(window[2])

\* The certificate described by d: its Netscape Comment
MkIasCert(d) ==
    LET attestation_raw == MkReportJson(d)
        sig_cert == IF d.der = "ok" THEN IasSigningCert(d.role, d.window)
                    ELSE <<48, 130, 4, 161, 48, 130>>
        signed == rsa_sign(sig_cert, attestation_raw)
        sig == CASE d.sig = "ok" -> signed
                 [] d.sig = "corrupt" -> Corrupt(signed)
                 [] d.sig = "other_key" ->
                        rsa_sign(IasSigningCert(ROLE_FOREIGN_SIGNING, d.window), attestation_raw)
                 [] OTHER -> rsa_sign(sig_cert, attestation_raw \o <<NEWLINE>>)
    IN  CASE d.comment = "three" ->
                attestation_raw \o <<VERTICAL_LINE>> \o base64_encode(sig)
                \o <<VERTICAL_LINE>> \o base64_encode(sig_cert)
          [] d.comment = "two" ->
                attestation_raw \o <<VERTICAL_LINE>> \o base64_encode(sig)
          [] d.comment = "bad_base64" ->
                attestation_raw \o <<VERTICAL_LINE>> \o <<42>> \o base64_encode(sig)
                \o <<VERTICAL_LINE>> \o base64_encode(sig_cert)
          [] OTHER -> <<>>

GoodIasDesc ==
    [ comment |-> "three", der |-> "ok", role |-> ROLE_IAS_SIGNING,
      window |-> <<1500000000, 1600000000>>, sig |-> "ok", json |-> "ok",
      ts |-> GoodTimestamp, status |-> [k |-> "String", s |-> <<79, 75>>], body |-> GoodBody ]

\* The certificates submitted: every status with every quote body; every
\* timestamp with a present and a missing status and body; every signing
\* certificate and signature with a well-formed and a broken report; the
\* comments that do not hold three fields.
IasDescs ==
    {[GoodIasDesc EXCEPT !.status = st, !.body = b] : st \in Statuses, b \in Bodies}
    \cup {[GoodIasDesc EXCEPT !.ts = t, !.status = st, !.body = b] :
            t \in Timestamps,
            st \in {[k |-> "String", s |-> <<79, 75>>], [k |-> "Missing", s |-> <<>>]},
            b \in {GoodBody, [k |-> "Missing", made |-> "none", quote |-> <<>>, s |-> <<>>]}}
    \cup {[GoodIasDesc EXCEPT !.role = r, !.window = w, !.sig = sg, !.der = dr, !.json = j] :
            r \in {ROLE_IAS_SIGNING, ROLE_FOREIGN_SIGNING}, w \in CertWindows,
            sg \in {"ok", "corrupt", "other_key", "other_message"},
            dr \in {"ok", "garbage"}, j \in {"ok", "broken"}}
    \cup {[GoodIasDesc EXCEPT !.comment = c] : c \in {"two", "bad_base64", "none"}}

InitIas ==
    /\ op = "verify_ias_report"
    /\ pc = "call"
    /\ usize_bits \in {32, 64}
    /\ \E d \in IasDescs : origin = d /\ arg = MkIasCert(d)
    /\ dcap_quote = <<>>
    /\ verification_time = 0
    /\ qe = <<>>
    /\ base = <<>>
    /\ result = [kind |-> "None"]

\* The call of verify_ias_report
VerifyIasReport ==
    /\ op = "verify_ias_report"
    /\ pc = "call"
    /\ result' = verify_ias_report(arg)
    /\ pc' = "done"
    /\ UNCHANGED <<op, usize_bits, dcap_quote, verification_time, qe, origin, base, arg>>

NextIas == VerifyIasReport

SpecIas == InitIas /\ [][NextIas]_vars

---------------------------------------------------------------------------
(* The claims on verify_ias_report, stated on the state *)

IasCalled == op = "verify_ias_report" /\ pc = "done"

\* The certificate as submitted reaches parse_report with a report that parses
ReportReached(d) ==
    /\ d.comment = "three" /\ d.der = "ok" /\ d.sig = "ok" /\ d.json = "ok"
    /\ d.role = ROLE_IAS_SIGNING
    /\ d.window[1] <= IAS_VALID_UNTIL /\ IAS_VALID_UNTIL <= d.window[2]

\* The status named by a status string
StatusTable(s) ==
    CASE s = <<79, 75>> -> "Ok"
      [] s = <<71, 82, 79, 85, 80, 95, 79, 85, 84, 95, 79, 70, 95, 68, 65, 84, 69>> -> "GroupOutOfDate"
      [] s = <<71, 82, 79, 85, 80, 95, 82, 69, 86, 79, 75, 69, 68>> -> "GroupRevoked"
      [] s = <<67, 79, 78, 70, 73, 71, 85, 82, 65, 84, 73, 79, 78, 95, 78, 69, 69, 68, 69, 68>> -> "ConfigurationNeeded"
      [] OTHER -> "Invalid"

\* C8: an accepted report carries the status its isvEnclaveQuoteStatus string
\* names (OK, GROUP_OUT_OF_DATE, GROUP_REVOKED, CONFIGURATION_NEEDED; Invalid
\* for any other string); with everything else in order every string is
\* accepted; a status that is missing or no string is refused with an error.
C8_StatusMapping ==
    IasCalled =>
        /\ result.kind = "Ok" =>
              /\ origin.status.k = "String"
              /\ result.report.status = StatusTable(origin.status.s)
        /\ origin.status.k # "String" => result.kind = "Err"
        /\ ( /\ ReportReached(origin)
             /\ origin.ts.made = "formatted" /\ origin.ts.secs >= 0
             /\ origin.body.made \in {"good", "trailing"}
             /\ origin.status.k = "String" ) => result.kind = "Ok"

\* C8 witness: a report with a status string outside the four is accepted
\* with status Invalid.
C8_Witness ==
    /\ IasCalled
    /\ origin.status.k = "String" /\ origin.status.s = <<83, 87, 95, 72, 65, 82, 68, 69, 78, 73, 78, 71, 95, 78, 69, 69, 68, 69, 68>>
    /\ result.kind = "Ok"
    /\ result.report.status = "Invalid"

\* C9: the report returned has the mr_enclave of the quote written into
\* isvEnclaveQuoteBody (bytes 112 .. 143 of the quote), the first 32 bytes
\* of its report_data (bytes 368 .. 399) as pubkey, and the build mode of
\* its flags (byte 96).
C9_ReportFieldsOfQuote ==
    (IasCalled /\ result.kind = "Ok") =>
        LET quote == origin.body.quote
        IN  /\ origin.body.k = "String"
            /\ result.report.mr_enclave = SubSeq(quote, 113, 144)
            /\ result.report.pubkey = SubSeq(quote, 369, 400)
            /\ result.report.build_mode =
                  (IF (quote[97] \div 2) % 2 = 1 THEN "Debug" ELSE "Production")

\* C9 witness: a quote followed by further bytes is accepted, its enclave in
\* debug mode, mr_enclave and mr_signer different.
C9_Witness ==
    /\ IasCalled
    /\ result.kind = "Ok"
    /\ origin.body.made = "trailing"
    /\ result.report.build_mode = "Debug"
    /\ result.report.mr_enclave = [i \in 1 .. 32 |-> i]
    /\ result.report.pubkey = [i \in 1 .. 32 |-> 200 - i]

\* C10: an accepted report's timestamp is 1000 times the Unix seconds of the
\* instant its timestamp was written for, whatever the sub-second digits;
\* a timestamp before the epoch is refused with the conversion error, one at
\* or after the epoch is accepted when everything else is in order.
C10_TimestampMillis ==
    IasCalled =>
        /\ result.kind = "Ok" =>
              /\ result.report.timestamp >= 0
              /\ result.report.timestamp % 1000 = 0
              /\ origin.ts.made = "formatted" =>
                    result.report.timestamp = 1000 * origin.ts.secs
        /\ (ReportReached(origin) /\ origin.ts.made = "formatted" /\ origin.ts.secs < 0) =>
              result = Err("Error converting report.timestamp to u64")
        /\ ( /\ ReportReached(origin)
             /\ origin.ts.made = "formatted" /\ origin.ts.secs >= 0
             /\ origin.status.k = "String"
             /\ origin.body.made \in {"good", "trailing"} ) => result.kind = "Ok"

\* C10 witness: a timestamp with sub-second digits, 2000000 seconds after the
\* epoch, is reported as 2000000000 milliseconds.
C10_Witness ==
    /\ IasCalled
    /\ result.kind = "Ok"
    /\ origin.ts.secs = 2000000
    /\ origin.ts.frac = <<46, 57, 57, 57, 57, 57, 57, 57, 57, 57>>
    /\ result.report.timestamp = 2000000000

---------------------------------------------------------------------------
(* Collateral: QE identity and TCB info *)
---------------------------------------------------------------------------
(* Collateral: what serde reads from the Value of a document *)

\* A document is the Value serde_json reads from its bytes: [t, s] with s the
\* text of a string or number, the items of an array, or the members
\* [key, value] of an object; t = "Invalid" stands for bytes that are no JSON.
JsonString(text) == [t |-> "String", s |-> text]

JsonArray(items) == [t |-> "Array", s |-> items]

JsonObject(members) == [t |-> "Object", s |-> members]

\* The member of an object a struct field is read from; Null when missing
json_field(v, key) == json_index([members |-> v.s], key)

\* Deserialize for an unsigned integer of the given width: [ok, v]
de_uint(v, bits) ==
    IF \/ v.t # "Number" \/ Len(v.s) = 0 \/ Len(v.s) > 5
       \/ \E i \in 1 .. Len(v.s) : ~IsDigit(v.s[i])
    THEN [ok |-> FALSE]
    ELSE LET n == DigitsValue(v.s, 0, Len(v.s))
         IN  IF bits = 8 /\ n > 255 THEN [ok |-> FALSE]
             ELSE IF n > 65535 THEN [ok |-> FALSE]
             ELSE [ok |-> TRUE, v |-> n]

\* Deserialize for String: [ok, v]
de_string(v) == IF v.t = "String" THEN [ok |-> TRUE, v |-> v.s] ELSE [ok |-> FALSE]

\* Value of a hexadecimal digit, -1 for any other character
hex_value(c) ==
    IF c >= 48 /\ c <= 57 THEN c - 48
    ELSE IF c >= 65 /\ c <= 70 THEN c - 55
    ELSE IF c >= 97 /\ c <= 102 THEN c - 87
    ELSE -1

\* deserialize_from_hex::<N>: hex::decode of the string, then exactly n bytes
deserialize_from_hex(v, n) ==
    IF v.t # "String" THEN [ok |-> FALSE]
    ELSE IF Len(v.s) % 2 # 0 \/ (\E i \in 1 .. Len(v.s) : hex_value(v.s[i]) < 0)
    THEN [ok |-> FALSE]
    ELSE IF Len(v.s) # 2 * n THEN [ok |-> FALSE]
    ELSE [ok |-> TRUE,
          v |-> [i \in 1 .. n |-> 16 * hex_value(v.s[2 * i - 1]) + hex_value(v.s[2 * i])]]

\* The first three sub-second digits of the n digits after the first i
\* characters of s, as milliseconds
fraction_millis(s, i, n) ==
    100 * (IF n >= 1 THEN s[i + 1] - 48 ELSE 0)
    + 10 * (IF n >= 2 THEN s[i + 2] - 48 ELSE 0)
    + (IF n >= 3 THEN s[i + 3] - 48 ELSE 0)

\* Deserialize for DateTime<Utc>: an RFC 3339 date and time,
\* YYYY-MM-DDTHH:MM:SS[.f] followed by Z or +hh:mm / -hh:mm.
\* [ok, v] with v = [timestamp, subsec_millis]: the whole seconds since the
\* epoch (rounded down) and the milliseconds within the second, 1000 more
\* during a leap second.
de_datetime(v) ==
    IF v.t # "String" THEN [ok |-> FALSE]
    ELSE
    LET s == v.s
    IN  IF \/ Len(s) < 20
           \/ \E i \in {1, 2, 3, 4, 6, 7, 9, 10, 12, 13, 15, 16, 18, 19} : ~IsDigit(s[i])
           \/ s[5] # 45 \/ s[8] # 45 \/ s[11] \notin {84, 116}
           \/ s[14] # 58 \/ s[17] # 58
        THEN [ok |-> FALSE]
        ELSE
        LET y == DigitsValue(s, 0, 4)
            m == DigitsValue(s, 5, 2)
            d == DigitsValue(s, 8, 2)
            h == DigitsValue(s, 11, 2)
            mi == DigitsValue(s, 14, 2)
            sec == DigitsValue(s, 17, 2)
            f == parse_fraction(s, 19)
        IN  IF ~f.ok THEN [ok |-> FALSE]
            ELSE
            LET zulu == f.next + 1 = Len(s) /\ s[Len(s)] \in {90, 122}
                z == IF zulu THEN [ok |-> TRUE, offset |-> 0, next |-> Len(s)]
                     ELSE IF f.next + 4 <= Len(s) /\ s[f.next + 4] = 58
                     THEN parse_timezone_offset(s, f.next)
                     ELSE [ok |-> FALSE]
            IN  IF ~z.ok THEN [ok |-> FALSE]
                ELSE IF z.next # Len(s) THEN [ok |-> FALSE]
                ELSE IF \/ m < 1 \/ m > 12 \/ d < 1 \/ d > days_in_month(y, m)
                        \/ h > 23 \/ mi > 59 \/ sec > 60
                THEN [ok |-> FALSE]
                ELSE
                    [ ok |-> TRUE,
                      v  |-> [ timestamp |->
                                  days_from_civil(y, m, d) * SECONDS_PER_DAY
                                  + 3600 * h + 60 * mi + Min(sec, 59) - z.offset,
                               subsec_millis |->
                                  fraction_millis(s, 20, Min(f.next - 20, 3))
                                  + (IF sec = 60 THEN 1000 ELSE 0) ] ]

\* DateTime::timestamp_millis
timestamp_millis_of(date_time) == date_time.timestamp * 1000 + date_time.subsec_millis

\* Deserialize for Vec<T>: every item of the array read by de_item, in order
de_vec(v, de_item(_)) ==
    IF v.t # "Array" THEN [ok |-> FALSE]
    ELSE LET items == [i \in 1 .. Len(v.s) |-> de_item(v.s[i])]
         IN  IF \E i \in 1 .. Len(items) : ~items[i].ok THEN [ok |-> FALSE]
             ELSE [ok |-> TRUE, v |-> [i \in 1 .. Len(items) |-> items[i].v]]

---------------------------------------------------------------------------
(* Collateral: EnclaveIdentity *)

\* Deserialize for Tcb
de_Tcb(v) ==
    IF v.t # "Object" THEN [ok |-> FALSE]
    ELSE LET isvsvn == de_uint(json_field(v, <<105, 115, 118, 115, 118, 110>>), 16)
         IN  IF ~isvsvn.ok THEN [ok |-> FALSE]
             ELSE [ok |-> TRUE, v |-> [isvsvn |-> isvsvn.v]]

\* Deserialize for Option<Vec<String>>: a missing member and null are None
de_advisory_ids(v) ==
    IF v.t = "Null" THEN [ok |-> TRUE, v |-> <<>>]
    ELSE de_vec(v, de_string)

\* Deserialize for TcbLevel
de_TcbLevel(v) ==
    IF v.t # "Object" THEN [ok |-> FALSE]
    ELSE
        LET tcb == de_Tcb(json_field(v, <<116, 99, 98>>))
            tcb_date == de_datetime(json_field(v, <<116, 99, 98, 68, 97, 116, 101>>))
            tcb_status == de_string(json_field(v, <<116, 99, 98, 83, 116, 97, 116, 117, 115>>))
            advisory_ids == de_advisory_ids(json_field(v, <<97, 100, 118, 105, 115, 111, 114, 121, 73, 68, 115>>))
        IN  IF ~tcb.ok \/ ~tcb_date.ok \/ ~tcb_status.ok \/ ~advisory_ids.ok
            THEN [ok |-> FALSE]
            ELSE [ok |-> TRUE,
                  v |-> [tcb |-> tcb.v, tcb_date |-> tcb_date.v,
                         tcb_status |-> tcb_status.v, advisory_ids |-> advisory_ids.v]]

\* serde_json::from_slice::<EnclaveIdentity>: [ok, v]
de_EnclaveIdentity(v) ==
    IF v.t # "Object" THEN [ok |-> FALSE]
    ELSE
        LET id == de_string(json_field(v, <<105, 100>>))
            version == de_uint(json_field(v, <<118, 101, 114, 115, 105, 111, 110>>), 16)
            issue_date == de_datetime(json_field(v, <<105, 115, 115, 117, 101, 68, 97, 116, 101>>))
            next_update == de_datetime(json_field(v, <<110, 101, 120, 116, 85, 112, 100, 97, 116, 101>>))
            tcb_evaluation_data_number ==
                de_uint(json_field(v, <<116, 99, 98, 69, 118, 97, 108, 117, 97, 116, 105, 111, 110, 68, 97, 116, 97, 78, 117, 109, 98, 101, 114>>), 16)
            miscselect == deserialize_from_hex(json_field(v, <<109, 105, 115, 99, 115, 101, 108, 101, 99, 116>>), 4)
            miscselect_mask == deserialize_from_hex(json_field(v, <<109, 105, 115, 99, 115, 101, 108, 101, 99, 116, 77, 97, 115, 107>>), 4)
            attributes == deserialize_from_hex(json_field(v, <<97, 116, 116, 114, 105, 98, 117, 116, 101, 115>>), 16)
            attributes_mask == deserialize_from_hex(json_field(v, <<97, 116, 116, 114, 105, 98, 117, 116, 101, 115, 77, 97, 115, 107>>), 16)
            mrsigner == deserialize_from_hex(json_field(v, <<109, 114, 115, 105, 103, 110, 101, 114>>), 32)
            isvprodid == de_uint(json_field(v, <<105, 115, 118, 112, 114, 111, 100, 105, 100>>), 16)
            tcb_levels == de_vec(json_field(v, <<116, 99, 98, 76, 101, 118, 101, 108, 115>>), de_TcbLevel)
        IN  IF \/ ~id.ok \/ ~version.ok \/ ~issue_date.ok \/ ~next_update.ok
               \/ ~tcb_evaluation_data_number.ok \/ ~miscselect.ok \/ ~miscselect_mask.ok
               \/ ~attributes.ok \/ ~attributes_mask.ok \/ ~mrsigner.ok \/ ~isvprodid.ok
               \/ ~tcb_levels.ok
            THEN [ok |-> FALSE]
            ELSE [ok |-> TRUE,
                  v |-> [ id |-> id.v, version |-> version.v,
                          issue_date |-> issue_date.v, next_update |-> next_update.v,
                          tcb_evaluation_data_number |-> tcb_evaluation_data_number.v,
                          miscselect |-> miscselect.v, miscselect_mask |-> miscselect_mask.v,
                          attributes |-> attributes.v, attributes_mask |-> attributes_mask.v,
                          mrsigner |-> mrsigner.v, isvprodid |-> isvprodid.v,
                          tcb_levels |-> tcb_levels.v ]]

\* Mutant: a level needs an isvsvn above 6.
Tcb_is_valid_above_six(self) == self.isvsvn > 6

\* Tcb::is_valid
Tcb_is_valid(self) == self.isvsvn >= 6

\* TcbLevel::is_valid
TcbLevel_is_valid(self) == Tcb_is_valid(self.tcb) /\ self.tcb_status = <<85, 112, 84, 111, 68, 97, 116, 101>>

\* Mutant: the window includes the instant of issue.
EnclaveIdentity_is_valid_from_issue(self, now_millis) ==
    /\ self.id = <<81, 69>>
    /\ self.version = 2
    /\ timestamp_millis_of(self.issue_date) <= now_millis
    /\ now_millis < timestamp_millis_of(self.next_update)

\* EnclaveIdentity::is_valid
EnclaveIdentity_is_valid(self, now_millis) ==
    /\ self.id = <<81, 69>>
    /\ self.version = 2
    /\ timestamp_millis_of(self.issue_date) < now_millis
    /\ now_millis < timestamp_millis_of(self.next_update)

\* i64::try_into::<u64>: [ok, v]
u64_try_from(i) == [ok |-> i >= 0, v |-> i]

\* EnclaveIdentity::to_quoting_enclave: the QuotingEnclave (a QeTcb is its
\* isvsvn), or the panic of expect
EnclaveIdentity_to_quoting_enclave(self) ==
    LET kept == SelectSeq(self.tcb_levels, TcbLevel_is_valid)
        valid_tcbs == [i \in 1 .. Len(kept) |-> kept[i].tcb.isvsvn]
        issue_date == u64_try_from(timestamp_millis_of(self.issue_date))
        next_update == u64_try_from(timestamp_millis_of(self.next_update))
    IN  IF ~issue_date.ok \/ ~next_update.ok THEN Panic
        ELSE [ kind |-> "Ok",
               value |-> [ issue_date |-> issue_date.v, next_update |-> next_update.v,
                           miscselect |-> self.miscselect,
                           miscselect_mask |-> self.miscselect_mask,
                           attributes |-> self.attributes,
                           attributes_mask |-> self.attributes_mask,
                           mrsigner |-> self.mrsigner, isvprodid |-> self.isvprodid,
                           tcb |-> valid_tcbs ] ]


---------------------------------------------------------------------------
(* Collateral: TcbInfo *)

TCB_COMPONENTS == 16

STATUS_UP_TO_DATE == <<85, 112, 84, 111, 68, 97, 116, 101>>

STATUS_SW_HARDENING_NEEDED == <<83, 87, 72, 97, 114, 100, 101, 110, 105, 110, 103, 78, 101, 101, 100, 101, 100>>

\* The name of the field sgxtcbcompNNsvn
sgxtcbcomp_svn(i) == <<115, 103, 120, 116, 99, 98, 99, 111, 109, 112>> \o Digits(i, 2) \o <<115, 118, 110>>

\* Deserialize for Option<String>
de_option_string(v) == IF v.t = "Null" THEN [ok |-> TRUE, v |-> <<>>] ELSE de_string(v)

\* Deserialize for TcbComponentV3: its svn
de_TcbComponentV3(v) ==
    IF v.t # "Object" THEN [ok |-> FALSE]
    ELSE IF \/ ~de_option_string(json_field(v, <<99, 97, 116, 101, 103, 111, 114, 121>>)).ok
            \/ ~de_option_string(json_field(v, <<116, 121, 112, 101>>)).ok
    THEN [ok |-> FALSE]
    ELSE de_uint(json_field(v, <<115, 118, 110>>), 8)

\* Deserialize for TcbFullV2: the sixteen TcbComponentV2 in the order of the
\* fields, which get_sgx_tcb_comp_svn_as_slice returns, and pcesvn
de_TcbFullV2(v) ==
    IF v.t # "Object" THEN [ok |-> FALSE]
    ELSE LET comps == [i \in 1 .. TCB_COMPONENTS |-> de_uint(json_field(v, sgxtcbcomp_svn(i)), 8)]
             pcesvn == de_uint(json_field(v, <<112, 99, 101, 115, 118, 110>>), 16)
         IN  IF ~pcesvn.ok \/ (\E i \in 1 .. TCB_COMPONENTS : ~comps[i].ok) THEN [ok |-> FALSE]
             ELSE [ok |-> TRUE,
                   v |-> [sgxtcbcomp_svn |-> [i \in 1 .. TCB_COMPONENTS |-> comps[i].v],
                          pcesvn |-> pcesvn.v]]

\* Deserialize for TcbFullV3: an array of exactly sixteen components, and pcesvn
de_TcbFullV3(v) ==
    IF v.t # "Object" THEN [ok |-> FALSE]
    ELSE LET comps == de_vec(json_field(v, <<115, 103, 120, 116, 99, 98, 99, 111, 109, 112, 111, 110, 101, 110, 116, 115>>), de_TcbComponentV3)
             pcesvn == de_uint(json_field(v, <<112, 99, 101, 115, 118, 110>>), 16)
         IN  IF ~pcesvn.ok \/ ~comps.ok THEN [ok |-> FALSE]
             ELSE IF Len(comps.v) # TCB_COMPONENTS THEN [ok |-> FALSE]
             ELSE [ok |-> TRUE, v |-> [sgxtcbcomponents |-> comps.v, pcesvn |-> pcesvn.v]]

\* Deserialize for TcbLevelFullV2 and TcbLevelFullV3, which differ in tcb
de_TcbLevelFull(v, de_tcb(_)) ==
    IF v.t # "Object" THEN [ok |-> FALSE]
    ELSE
        LET tcb == de_tcb(json_field(v, <<116, 99, 98>>))
            tcb_date == de_datetime(json_field(v, <<116, 99, 98, 68, 97, 116, 101>>))
            tcb_status == de_string(json_field(v, <<116, 99, 98, 83, 116, 97, 116, 117, 115>>))
            advisory_ids == de_advisory_ids(json_field(v, <<97, 100, 118, 105, 115, 111, 114, 121, 73, 68, 115>>))
        IN  IF ~tcb.ok \/ ~tcb_date.ok \/ ~tcb_status.ok \/ ~advisory_ids.ok
            THEN [ok |-> FALSE]
            ELSE [ok |-> TRUE,
                  v |-> [tcb |-> tcb.v, tcb_date |-> tcb_date.v,
                         tcb_status |-> tcb_status.v, advisory_ids |-> advisory_ids.v]]

de_TcbLevelFullV2(v) == de_TcbLevelFull(v, de_TcbFullV2)

de_TcbLevelFullV3(v) == de_TcbLevelFull(v, de_TcbFullV3)

\* serde_json::from_slice::<TcbInfoV2>: [ok, v]
de_TcbInfoV2(v) ==
    IF v.t # "Object" THEN [ok |-> FALSE]
    ELSE
        LET version == de_uint(json_field(v, <<118, 101, 114, 115, 105, 111, 110>>), 8)
            issue_date == de_datetime(json_field(v, <<105, 115, 115, 117, 101, 68, 97, 116, 101>>))
            next_update == de_datetime(json_field(v, <<110, 101, 120, 116, 85, 112, 100, 97, 116, 101>>))
            fmspc == deserialize_from_hex(json_field(v, <<102, 109, 115, 112, 99>>), 6)
            pce_id == de_string(json_field(v, <<112, 99, 101, 73, 100>>))
            tcb_type == de_uint(json_field(v, <<116, 99, 98, 84, 121, 112, 101>>), 16)
            tcb_evaluation_data_number ==
                de_uint(json_field(v, <<116, 99, 98, 69, 118, 97, 108, 117, 97, 116, 105, 111, 110, 68, 97, 116, 97, 78, 117, 109, 98, 101, 114>>), 16)
            tcb_levels == de_vec(json_field(v, <<116, 99, 98, 76, 101, 118, 101, 108, 115>>), de_TcbLevelFullV2)
        IN  IF \/ ~version.ok \/ ~issue_date.ok \/ ~next_update.ok \/ ~fmspc.ok \/ ~pce_id.ok
               \/ ~tcb_type.ok \/ ~tcb_evaluation_data_number.ok \/ ~tcb_levels.ok
            THEN [ok |-> FALSE]
            ELSE [ok |-> TRUE,
                  v |-> [ version |-> version.v,
                          issue_date |-> issue_date.v, next_update |-> next_update.v,
                          fmspc |-> fmspc.v, pce_id |-> pce_id.v, tcb_type |-> tcb_type.v,
                          tcb_evaluation_data_number |-> tcb_evaluation_data_number.v,
                          tcb_levels |-> tcb_levels.v ]]

\* serde_json::from_slice::<TcbInfoV3>: [ok, v]
de_TcbInfoV3(v) ==
    IF v.t # "Object" THEN [ok |-> FALSE]
    ELSE
        LET id == de_string(json_field(v, <<105, 100>>))
            version == de_uint(json_field(v, <<118, 101, 114, 115, 105, 111, 110>>), 8)
            issue_date == de_datetime(json_field(v, <<105, 115, 115, 117, 101, 68, 97, 116, 101>>))
            next_update == de_datetime(json_field(v, <<110, 101, 120, 116, 85, 112, 100, 97, 116, 101>>))
            fmspc == deserialize_from_hex(json_field(v, <<102, 109, 115, 112, 99>>), 6)
            pce_id == de_string(json_field(v, <<112, 99, 101, 73, 100>>))
            tcb_type == de_uint(json_field(v, <<116, 99, 98, 84, 121, 112, 101>>), 16)
            tcb_evaluation_data_number ==
                de_uint(json_field(v, <<116, 99, 98, 69, 118, 97, 108, 117, 97, 116, 105, 111, 110, 68, 97, 116, 97, 78, 117, 109, 98, 101, 114>>), 16)
            tcb_levels == de_vec(json_field(v, <<116, 99, 98, 76, 101, 118, 101, 108, 115>>), de_TcbLevelFullV3)
        IN  IF \/ ~id.ok \/ ~version.ok \/ ~issue_date.ok \/ ~next_update.ok \/ ~fmspc.ok
               \/ ~pce_id.ok \/ ~tcb_type.ok \/ ~tcb_evaluation_data_number.ok \/ ~tcb_levels.ok
            THEN [ok |-> FALSE]
            ELSE [ok |-> TRUE,
                  v |-> [ id |-> id.v, version |-> version.v,
                          issue_date |-> issue_date.v, next_update |-> next_update.v,
                          fmspc |-> fmspc.v, pce_id |-> pce_id.v, tcb_type |-> tcb_type.v,
                          tcb_evaluation_data_number |-> tcb_evaluation_data_number.v,
                          tcb_levels |-> tcb_levels.v ]]

\* An Option: [kind |-> "None"] or [kind |-> tag, value |-> x]
None == [kind |-> "None"]

\* TcbInfoV2::from_byte_slice
TcbInfoV2_from_byte_slice(slice) ==
    LET r == de_TcbInfoV2(slice) IN IF r.ok THEN [kind |-> "V2", value |-> r.v] ELSE None

\* TcbInfoV3::from_byte_slice: an Option<TcbInfoV3> is read, null is None and
\* unwrap_or_default makes an error None
TcbInfoV3_from_byte_slice(slice) ==
    IF slice.t = "Null" THEN None
    ELSE LET r == de_TcbInfoV3(slice) IN IF r.ok THEN [kind |-> "V3", value |-> r.v] ELSE None

\* Mutant: the v3 schema is tried first.
TcbInfo_from_byte_slice_v3_first(slice) ==
    LET or_else(v3) == IF v3 # None THEN v3 ELSE TcbInfoV2_from_byte_slice(slice)
    IN  or_else(TcbInfoV3_from_byte_slice(slice))

\* TcbInfo::from_byte_slice
TcbInfo_from_byte_slice(slice) ==
    LET or_else(v2) == IF v2 # None THEN v2 ELSE TcbInfoV3_from_byte_slice(slice)
    IN  or_else(TcbInfoV2_from_byte_slice(slice))

\* Mutant: the version of a v2 document is not looked at.
TcbInfoV2_is_valid_any_version(self, now_millis) ==
    /\ timestamp_millis_of(self.issue_date) < now_millis
    /\ now_millis < timestamp_millis_of(self.next_update)

\* TcbInfoV2::is_valid
TcbInfoV2_is_valid(self, now_millis) ==
    /\ self.version = 2
    /\ timestamp_millis_of(self.issue_date) < now_millis
    /\ now_millis < timestamp_millis_of(self.next_update)

\* TcbInfoV3::is_valid
TcbInfoV3_is_valid(self, now_millis) ==
    /\ self.id = <<83, 71, 88>>
    /\ self.version = 3
    /\ timestamp_millis_of(self.issue_date) < now_millis
    /\ now_millis < timestamp_millis_of(self.next_update)

\* TcbInfo::is_valid
TcbInfo_is_valid(self, now_millis) ==
    IF self.kind = "V3" THEN TcbInfoV3_is_valid(self.value, now_millis)
    ELSE TcbInfoV2_is_valid(self.value, now_millis)

\* TcbLevelFullV2::is_valid
TcbLevelFullV2_is_valid(self) ==
    self.tcb_status = STATUS_UP_TO_DATE \/ self.tcb_status = STATUS_SW_HARDENING_NEEDED

\* Mutant: only levels that are up to date are kept.
TcbLevelFullV3_is_valid_up_to_date(self) == self.tcb_status = STATUS_UP_TO_DATE

\* TcbLevelFullV3::is_valid
TcbLevelFullV3_is_valid(self) ==
    self.tcb_status = STATUS_UP_TO_DATE \/ self.tcb_status = STATUS_SW_HARDENING_NEEDED

\* The tuple (Fmspc, TcbInfoOnChain), or the panic of expect
chain_tcb_info(fmspc, issue, next, valid_tcbs) ==
    LET issue_date == u64_try_from(timestamp_millis_of(issue))
        next_update == u64_try_from(timestamp_millis_of(next))
    IN  IF ~issue_date.ok \/ ~next_update.ok THEN Panic
        ELSE [ kind |-> "Ok",
               value |-> [ fmspc |-> fmspc, issue_date |-> issue_date.v,
                           next_update |-> next_update.v, tcb_levels |-> valid_tcbs ] ]

\* TcbInfoV2::to_chain_tcb_info
TcbInfoV2_to_chain_tcb_info(self) ==
    LET kept == SelectSeq(self.tcb_levels, TcbLevelFullV2_is_valid)
        valid_tcbs == [i \in 1 .. Len(kept) |->
                        [components |-> kept[i].tcb.sgxtcbcomp_svn, pcesvn |-> kept[i].tcb.pcesvn]]
    IN  chain_tcb_info(self.fmspc, self.issue_date, self.next_update, valid_tcbs)

\* TcbInfoV3::to_chain_tcb_info
TcbInfoV3_to_chain_tcb_info(self) ==
    LET kept == SelectSeq(self.tcb_levels, TcbLevelFullV3_is_valid)
        valid_tcbs == [i \in 1 .. Len(kept) |->
                        [components |-> kept[i].tcb.sgxtcbcomponents, pcesvn |-> kept[i].tcb.pcesvn]]
    IN  chain_tcb_info(self.fmspc, self.issue_date, self.next_update, valid_tcbs)

\* TcbInfo::to_chain_tcb_info
TcbInfo_to_chain_tcb_info(self) ==
    IF self.kind = "V3" THEN TcbInfoV3_to_chain_tcb_info(self.value)
    ELSE TcbInfoV2_to_chain_tcb_info(self.value)
---------------------------------------------------------------------------
(* Collateral documents submitted *)

\* The most levels a document lists
MaxLevels == 2

\* The highest isvsvn a level has
MaxIsvsvn == 7

\* n, at most 9999, written in decimal
JsonNumber(n) ==
    [t |-> "Number",
     s |-> Digits(n, IF n < 10 THEN 1 ELSE IF n < 100 THEN 2 ELSE IF n < 1000 THEN 3 ELSE 4)]

\* hex::encode(..).to_uppercase()
hex_encode(bytes) ==
    [ i \in 1 .. 2 * Len(bytes) |->
        LET b == bytes[(i + 1) \div 2]
            v == IF i % 2 = 1 THEN b \div 16 ELSE b % 16
        IN  IF v < 10 THEN 48 + v ELSE 55 + v ]

\* The instant ms milliseconds from the epoch as Intel writes it, in UTC or
\* in the zone one hour east of it
DateText(ms, zone) ==
    LET frac == IF ms % 1000 = 0 THEN <<>> ELSE <<46>> \o Digits(ms % 1000, 3)
    IN  IF zone = "Z" THEN FormatTimestamp(ms \div 1000, frac) \o <<90>>
        ELSE FormatTimestamp(ms \div 1000 + 3600, frac) \o <<43, 48, 49, 58, 48, 48>>

Field(key, value) == [key |-> key, value |-> value]

\* One entry of tcbLevels of a QE identity
MkTcbLevel(l, advisories) ==
    JsonObject(
        << Field(<<116, 99, 98>>, JsonObject(<<Field(<<105, 115, 118, 115, 118, 110>>, JsonNumber(l.isvsvn))>>)),
           Field(<<116, 99, 98, 68, 97, 116, 101>>, JsonString(<<50, 48, 50, 49, 45, 49, 49, 45, 49, 48, 84, 48, 48, 58, 48, 48, 58, 48, 48, 90>>)),
           Field(<<116, 99, 98, 83, 116, 97, 116, 117, 115>>, JsonString(l.status)) >>
        \o (IF advisories
            THEN <<Field(<<97, 100, 118, 105, 115, 111, 114, 121, 73, 68, 115>>, JsonArray(<<JsonString(<<73, 78, 84, 69, 76, 45, 83, 65, 45, 48, 48, 54, 49, 53>>)>>))>>
            ELSE <<>>))

\* The QE identity described by d; its shape is "full" or names what is
\* wrong or unusual about it
MkEnclaveIdentity(d) ==
    IF d.shape = "no_json" THEN [t |-> "Invalid", s |-> <<>>]
    ELSE IF d.shape = "array" THEN JsonArray(<<JsonString(d.id), JsonNumber(d.version)>>)
    ELSE
    JsonObject(
        << Field(<<105, 100>>, JsonString(d.id)),
           Field(<<118, 101, 114, 115, 105, 111, 110>>, IF d.shape = "version_string" THEN JsonString(<<50>>)
                            ELSE IF d.shape = "version_wide"
                            THEN [t |-> "Number", s |-> <<54, 53, 53, 51, 54>>]
                            ELSE JsonNumber(d.version)),
           Field(<<105, 115, 115, 117, 101, 68, 97, 116, 101>>, IF d.shape = "date_without_zone"
                              THEN JsonString(<<50, 48, 50, 50, 45, 49, 48, 45, 49, 56, 84, 50, 49, 58, 53, 53, 58, 48, 55>>)
                              ELSE JsonString(DateText(d.issue, d.zone))),
           Field(<<110, 101, 120, 116, 85, 112, 100, 97, 116, 101>>, JsonString(DateText(d.next, d.zone))),
           Field(<<116, 99, 98, 69, 118, 97, 108, 117, 97, 116, 105, 111, 110, 68, 97, 116, 97, 78, 117, 109, 98, 101, 114>>, JsonNumber(12)),
           Field(<<109, 105, 115, 99, 115, 101, 108, 101, 99, 116>>, JsonString(hex_encode(d.miscselect))),
           Field(<<109, 105, 115, 99, 115, 101, 108, 101, 99, 116, 77, 97, 115, 107>>, JsonString(hex_encode(<<255, 255, 255, 255>>))),
           Field(<<97, 116, 116, 114, 105, 98, 117, 116, 101, 115>>, JsonString(hex_encode([i \in 1 .. 16 |-> 16 + i]))),
           Field(<<97, 116, 116, 114, 105, 98, 117, 116, 101, 115, 77, 97, 115, 107>>, JsonString(hex_encode([i \in 1 .. 16 |-> 251 - i]))) >>
        \o (IF d.shape = "no_mrsigner" THEN <<>>
            ELSE IF d.shape = "short_hex"
            THEN <<Field(<<109, 114, 115, 105, 103, 110, 101, 114>>, JsonString(hex_encode([i \in 1 .. 31 |-> 140 + i])))>>
            ELSE IF d.shape = "bad_hex"
            THEN <<Field(<<109, 114, 115, 105, 103, 110, 101, 114>>,
                         JsonString([hex_encode([i \in 1 .. 32 |-> 140 + i]) EXCEPT ![3] = 71]))>>
            ELSE <<Field(<<109, 114, 115, 105, 103, 110, 101, 114>>, JsonString(hex_encode([i \in 1 .. 32 |-> 140 + i])))>>)
        \o << Field(<<105, 115, 118, 112, 114, 111, 100, 105, 100>>, JsonNumber(d.isvprodid)),
              Field(<<116, 99, 98, 76, 101, 118, 101, 108, 115>>,
                    IF d.shape = "levels_null" THEN JsonNull
                    ELSE JsonArray([i \in 1 .. Len(d.levels) |->
                                      MkTcbLevel(d.levels[i], d.shape = "extra")])) >>
        \o (IF d.shape = "extra" THEN <<Field(<<99, 111, 109, 109, 101, 110, 116>>, JsonString(<<120>>))>> ELSE <<>>))

\* Levels of a QE identity: around the isvsvn required, with the statuses
\* Intel uses and one written in another case
IdentityLevels ==
    {[isvsvn |-> n, status |-> STATUS_UP_TO_DATE] : n \in 5 .. MaxIsvsvn}
    \cup { [isvsvn |-> 6, status |-> <<79, 117, 116, 79, 102, 68, 97, 116, 101>>], [isvsvn |-> 7, status |-> <<82, 101, 118, 111, 107, 101, 100>>],
           [isvsvn |-> 6, status |-> STATUS_SW_HARDENING_NEEDED],
           [isvsvn |-> 6, status |-> <<117, 112, 116, 111, 100, 97, 116, 101>>] }

\* The sequences of at most n elements of S
RECURSIVE SeqsUpTo(_, _)
SeqsUpTo(S, n) ==
    IF n = 0 THEN {<<>>}
    ELSE LET shorter == SeqsUpTo(S, n - 1)
         IN  shorter \cup {Append(q, x) : q \in {r \in shorter : Len(r) = n - 1}, x \in S}

\* Instants of issue and next update, milliseconds: before the epoch, the
\* epoch, within a second, a day and more later
DateMillis == {-1500, 0, 1500, 90061250}

GoodIdentityDesc ==
    [ kind |-> "identity", shape |-> "full", id |-> <<81, 69>>, version |-> 2,
      issue |-> 0, next |-> 90061250, zone |-> "Z", miscselect |-> <<1, 2, 3, 4>>,
      isvprodid |-> 1,
      levels |-> <<[isvsvn |-> 6, status |-> STATUS_UP_TO_DATE]>> ]

IdentityShapes ==
    { "full", "no_json", "array", "version_string", "version_wide", "date_without_zone",
      "no_mrsigner", "short_hex", "bad_hex", "levels_null", "extra" }

\* Identities that differ in what is_valid looks at
IdentityValidityDescs ==
    {[GoodIdentityDesc EXCEPT !.id = id, !.version = v, !.issue = i, !.next = n, !.zone = z] :
        id \in {<<81, 69>>, <<84, 68, 95, 81, 69>>, <<113, 101>>}, v \in {1, 2, 3}, i \in DateMillis, n \in DateMillis,
        z \in {"Z", "+01:00"}}
    \cup {[GoodIdentityDesc EXCEPT !.shape = sh] : sh \in IdentityShapes}

\* Identities that differ in what to_quoting_enclave looks at
IdentityProjectionDescs ==
    {[GoodIdentityDesc EXCEPT !.levels = ls, !.issue = i, !.next = n] :
        ls \in SeqsUpTo(IdentityLevels, MaxLevels),
        i \in {-1500, 0}, n \in {-1, 90061250}}
    \cup {[GoodIdentityDesc EXCEPT !.shape = sh, !.miscselect = ms, !.isvprodid = p] :
            sh \in IdentityShapes, ms \in {<<1, 2, 3, 4>>, <<0, 0, 0, 0>>}, p \in {1, 2}}

\* The component svns of a level whose first one is svn: all different
ComponentSvns(svn) == [i \in 1 .. TCB_COMPONENTS |-> (svn + 3 * i) % 256]

\* The tcb of a level in the v2 schema
MkTcbFullV2(l) ==
    JsonObject([i \in 1 .. TCB_COMPONENTS |->
                    Field(sgxtcbcomp_svn(i), JsonNumber(ComponentSvns(l.svn)[i]))]
               \o <<Field(<<112, 99, 101, 115, 118, 110>>, JsonNumber(l.pcesvn))>>)

\* The tcb of a level in the v3 schema, with n components; the first two
\* carry a category and a type
MkTcbFullV3(l, n) ==
    JsonObject(
        << Field(<<115, 103, 120, 116, 99, 98, 99, 111, 109, 112, 111, 110, 101, 110, 116, 115>>,
                 JsonArray([i \in 1 .. n |->
                    JsonObject(<<Field(<<115, 118, 110>>, JsonNumber(ComponentSvns(l.svn)[((i - 1) % TCB_COMPONENTS) + 1]))>>
                               \o (IF i <= 2
                                   THEN << Field(<<99, 97, 116, 101, 103, 111, 114, 121>>, JsonString(<<66, 73, 79, 83>>)),
                                           Field(<<116, 121, 112, 101>>, JsonString(<<69, 97, 114, 108, 121, 32, 77, 105, 99, 114, 111, 99, 111, 100, 101, 32, 85, 112, 100, 97, 116, 101>>)) >>
                                   ELSE <<>>))])),
           Field(<<112, 99, 101, 115, 118, 110>>, JsonNumber(l.pcesvn)) >>)

\* One entry of tcbLevels of a TCB info
MkTcbLevelFull(d, l) ==
    JsonObject(
        << Field(<<116, 99, 98>>,
                 IF d.shape = "both_tcbs"
                 THEN JsonObject(MkTcbFullV2(l).s \o <<MkTcbFullV3(l, TCB_COMPONENTS).s[1]>>)
                 ELSE IF d.schema = 2 THEN MkTcbFullV2(l)
                 ELSE IF d.shape = "fifteen_components" THEN MkTcbFullV3(l, TCB_COMPONENTS - 1)
                 ELSE IF d.shape = "seventeen_components" THEN MkTcbFullV3(l, TCB_COMPONENTS + 1)
                 ELSE MkTcbFullV3(l, TCB_COMPONENTS)),
           Field(<<116, 99, 98, 68, 97, 116, 101>>, JsonString(<<50, 48, 50, 49, 45, 49, 49, 45, 49, 48, 84, 48, 48, 58, 48, 48, 58, 48, 48, 90>>)),
           Field(<<116, 99, 98, 83, 116, 97, 116, 117, 115>>, JsonString(l.status)) >>
        \o (IF d.shape = "extra"
            THEN <<Field(<<97, 100, 118, 105, 115, 111, 114, 121, 73, 68, 115>>, JsonArray(<<JsonString(<<73, 78, 84, 69, 76, 45, 83, 65, 45, 48, 48, 54, 49, 53>>)>>))>>
            ELSE <<>>))

\* The TCB info described by d, in the schema d.schema
MkTcbInfo(d) ==
    IF d.shape = "no_json" THEN [t |-> "Invalid", s |-> <<>>]
    ELSE IF d.shape = "null" THEN JsonNull
    ELSE
    JsonObject(
        (IF d.schema = 3
         THEN <<Field(<<105, 100>>, JsonString(d.id))>>
              \o (IF d.shape = "extra" THEN <<Field(<<116, 101, 101, 84, 121, 112, 101>>, JsonNumber(0))>> ELSE <<>>)
         ELSE <<>>)
        \o << Field(<<118, 101, 114, 115, 105, 111, 110>>, IF d.shape = "version_wide"
                               THEN [t |-> "Number", s |-> <<50, 53, 54>>]
                               ELSE JsonNumber(d.version)),
              Field(<<105, 115, 115, 117, 101, 68, 97, 116, 101>>, JsonString(DateText(d.issue, d.zone))),
              Field(<<110, 101, 120, 116, 85, 112, 100, 97, 116, 101>>, JsonString(DateText(d.next, d.zone))),
              Field(<<102, 109, 115, 112, 99>>, JsonString(hex_encode(d.fmspc))) >>
        \o (IF d.shape = "no_pce_id" THEN <<>> ELSE <<Field(<<112, 99, 101, 73, 100>>, JsonString(<<48, 48, 48, 48>>))>>)
        \o << Field(<<116, 99, 98, 84, 121, 112, 101>>, JsonNumber(0)),
              Field(<<116, 99, 98, 69, 118, 97, 108, 117, 97, 116, 105, 111, 110, 68, 97, 116, 97, 78, 117, 109, 98, 101, 114>>, JsonNumber(12)),
              Field(<<116, 99, 98, 76, 101, 118, 101, 108, 115>>, JsonArray([i \in 1 .. Len(d.levels) |->
                                               MkTcbLevelFull(d, d.levels[i])])) >>)

\* Levels of a TCB info: the statuses Intel uses and one written in another
\* case, each with its own component svns and pcesvn
TcbInfoLevels ==
    { [status |-> STATUS_UP_TO_DATE, svn |-> 250, pcesvn |-> 11],
      [status |-> STATUS_SW_HARDENING_NEEDED, svn |-> 7, pcesvn |-> 10],
      [status |-> <<67, 111, 110, 102, 105, 103, 117, 114, 97, 116, 105, 111, 110, 65, 110, 100, 83, 87, 72, 97, 114, 100, 101, 110, 105, 110, 103, 78, 101, 101, 100, 101, 100>>, svn |-> 6, pcesvn |-> 9],
      [status |-> <<79, 117, 116, 79, 102, 68, 97, 116, 101>>, svn |-> 5, pcesvn |-> 7],
      [status |-> <<115, 119, 104, 97, 114, 100, 101, 110, 105, 110, 103, 110, 101, 101, 100, 101, 100>>, svn |-> 4, pcesvn |-> 5] }

GoodTcbInfoDesc ==
    [ kind |-> "tcb_info", schema |-> 2, shape |-> "full", id |-> <<83, 71, 88>>, version |-> 2,
      issue |-> 0, next |-> 90061250, zone |-> "Z", fmspc |-> <<0, 144, 110, 213, 0, 0>>,
      levels |-> <<[status |-> STATUS_UP_TO_DATE, svn |-> 250, pcesvn |-> 11]>> ]

TcbInfoShapes ==
    { "full", "no_json", "null", "version_wide", "no_pce_id", "extra", "both_tcbs",
      "fifteen_components", "seventeen_components" }

\* TCB infos that differ in what is_valid looks at; those without levels
\* read in both schemas
TcbInfoValidityDescs ==
    {[GoodTcbInfoDesc EXCEPT !.schema = sc, !.id = id, !.version = v, !.issue = i, !.next = n,
                             !.levels = ls] :
        sc \in {2, 3}, id \in {<<83, 71, 88>>, <<84, 68, 88>>}, v \in {1, 2, 3}, i \in DateMillis,
        n \in DateMillis, ls \in {<<>>, GoodTcbInfoDesc.levels}}
    \cup {[GoodTcbInfoDesc EXCEPT !.schema = sc, !.version = sc, !.shape = sh, !.zone = z] :
            sc \in {2, 3}, sh \in TcbInfoShapes, z \in {"Z", "+01:00"}}

\* TCB infos that differ in what to_chain_tcb_info looks at
TcbInfoProjectionDescs ==
    {[GoodTcbInfoDesc EXCEPT !.schema = sc, !.version = sc, !.levels = ls, !.issue = i,
                             !.next = n] :
        sc \in {2, 3}, ls \in SeqsUpTo(TcbInfoLevels, MaxLevels),
        i \in {-1500, 0}, n \in {-1, 90061250}}
    \cup {[GoodTcbInfoDesc EXCEPT !.schema = sc, !.version = sc, !.shape = sh, !.fmspc = f] :
            sc \in {2, 3}, sh \in TcbInfoShapes,
            f \in {GoodTcbInfoDesc.fmspc, <<0, 112, 111, 16, 0, 0>>}}

\* The instants is_valid is asked about: each instant of DateMillis, the
\* millisecond before it and the millisecond after it
ValidityTimes == {d + e : d \in DateMillis, e \in {-1, 0, 1}}

IDENTITY_OPS == {"EnclaveIdentity::is_valid", "EnclaveIdentity::to_quoting_enclave"}

TCB_INFO_OPS == {"TcbInfo::is_valid", "TcbInfo::to_chain_tcb_info"}

InitCollateral ==
    /\ pc = "call"
    /\ usize_bits = 64
    /\ dcap_quote = <<>>
    /\ qe = <<>>
    /\ base = None
    /\ result = None
    /\ \/ /\ op = "EnclaveIdentity::is_valid"
          /\ origin \in IdentityValidityDescs
          /\ verification_time \in ValidityTimes
       \/ /\ op = "EnclaveIdentity::to_quoting_enclave"
          /\ origin \in IdentityProjectionDescs
          /\ verification_time = 0
       \/ /\ op = "TcbInfo::is_valid"
          /\ origin \in TcbInfoValidityDescs
          /\ verification_time \in ValidityTimes
       \/ /\ op = "TcbInfo::to_chain_tcb_info"
          /\ origin \in TcbInfoProjectionDescs
          /\ verification_time = 0
    /\ arg = IF origin.kind = "identity" THEN MkEnclaveIdentity(origin) ELSE MkTcbInfo(origin)

\* serde_json::from_slice::<EnclaveIdentity>
DeserializeEnclaveIdentity ==
    /\ pc = "call"
    /\ op \in IDENTITY_OPS
    /\ LET r == de_EnclaveIdentity(arg)
       IN  IF r.ok
           THEN /\ base' = [kind |-> "EnclaveIdentity", value |-> r.v]
                /\ pc' = "deserialized"
                /\ UNCHANGED result
           ELSE /\ result' = Err("deserialize")
                /\ pc' = "done"
                /\ UNCHANGED base
    /\ UNCHANGED <<op, usize_bits, dcap_quote, verification_time, qe, origin, arg>>

\* TcbInfo::from_byte_slice
DeserializeTcbInfo ==
    /\ pc = "call"
    /\ op \in TCB_INFO_OPS
    /\ \E r \in {TcbInfo_from_byte_slice(arg)} :
            /\ base' = r
            /\ pc' = IF r = None THEN "done" ELSE "deserialized"
    /\ UNCHANGED <<op, usize_bits, dcap_quote, verification_time, qe, origin, arg, result>>

EnclaveIdentityIsValid ==
    /\ pc = "deserialized"
    /\ op = "EnclaveIdentity::is_valid"
    /\ result' = [kind |-> "Ok", value |-> EnclaveIdentity_is_valid(base.value, verification_time)]
    /\ pc' = "done"
    /\ UNCHANGED <<op, usize_bits, dcap_quote, verification_time, qe, origin, base, arg>>

EnclaveIdentityToQuotingEnclave ==
    /\ pc = "deserialized"
    /\ op = "EnclaveIdentity::to_quoting_enclave"
    /\ result' = EnclaveIdentity_to_quoting_enclave(base.value)
    /\ pc' = "done"
    /\ UNCHANGED <<op, usize_bits, dcap_quote, verification_time, qe, origin, base, arg>>

TcbInfoIsValid ==
    /\ pc = "deserialized"
    /\ op = "TcbInfo::is_valid"
    /\ result' = [kind |-> "Ok", value |-> TcbInfo_is_valid(base, verification_time)]
    /\ pc' = "done"
    /\ UNCHANGED <<op, usize_bits, dcap_quote, verification_time, qe, origin, base, arg>>

TcbInfoToChainTcbInfo ==
    /\ pc = "deserialized"
    /\ op = "TcbInfo::to_chain_tcb_info"
    /\ result' = TcbInfo_to_chain_tcb_info(base)
    /\ pc' = "done"
    /\ UNCHANGED <<op, usize_bits, dcap_quote, verification_time, qe, origin, base, arg>>

NextCollateral ==
    \/ DeserializeEnclaveIdentity
    \/ DeserializeTcbInfo
    \/ EnclaveIdentityIsValid
    \/ EnclaveIdentityToQuotingEnclave
    \/ TcbInfoIsValid
    \/ TcbInfoToChainTcbInfo

SpecCollateral == InitCollateral /\ [][NextCollateral]_vars

\* The operation op has returned for a document that deserialised
Returned(o) == pc = "done" /\ op = o /\ base.kind # "None"

\* C11: EnclaveIdentity.is_valid(t) is true exactly when id is "QE", version
\* is 2 and t lies strictly between the issue date and the next update, both
\* in milliseconds.
C11_IdentityValidStrictlyBetween ==
    Returned("EnclaveIdentity::is_valid") =>
        result = [kind |-> "Ok",
                  value |-> /\ origin.id = <<81, 69>>
                            /\ origin.version = 2
                            /\ origin.issue < verification_time
                            /\ verification_time < origin.next]

\* An identity is valid one millisecond after its issue date
C11_Witness ==
    /\ Returned("EnclaveIdentity::is_valid")
    /\ origin.issue = 1500
    /\ verification_time = 1501
    /\ origin.zone = "+01:00"
    /\ result = [kind |-> "Ok", value |-> TRUE]

\* Strictly between the issue date and the next update of the document
StrictlyBetween == origin.issue < verification_time /\ verification_time < origin.next

\* C12: TcbInfoV2.is_valid(t) is true exactly when version is 2 and t lies
\* strictly between issue date and next update; TcbInfoV3.is_valid(t) exactly
\* when id is "SGX", version is 3 and t lies strictly between them;
\* TcbInfo.is_valid is the is_valid of the variant held.
C12_TcbInfoValid ==
    /\ Returned("TcbInfo::is_valid") /\ base.kind = "V2"
        => result = [kind |-> "Ok", value |-> origin.version = 2 /\ StrictlyBetween]
    /\ Returned("TcbInfo::is_valid") /\ base.kind = "V3"
        => result = [kind |-> "Ok",
                     value |-> origin.id = <<83, 71, 88>> /\ origin.version = 3 /\ StrictlyBetween]

\* A TcbInfo holding a V3 is valid a millisecond before its next update
C12_Witness ==
    /\ Returned("TcbInfo::is_valid")
    /\ base.kind = "V3"
    /\ origin.next = 1500
    /\ verification_time = 1499
    /\ result = [kind |-> "Ok", value |-> TRUE]

\* The isvsvn of the levels of a QE identity that are kept, in their order
KeptIsvsvns(levels) ==
    LET kept == SelectSeq(levels, LAMBDA l : l.isvsvn >= 6 /\ l.status = <<85, 112, 84, 111, 68, 97, 116, 101>>)
    IN  [i \in 1 .. Len(kept) |-> kept[i].isvsvn]

\* C13: to_quoting_enclave keeps exactly the tcbLevels with isvsvn >= 6 and
\* tcbStatus "UpToDate", in their order, as their isvsvn, and copies every
\* other field of the identity.
C13_QuotingEnclaveKeepsValidLevels ==
    Returned("EnclaveIdentity::to_quoting_enclave") /\ result.kind = "Ok" =>
        result.value = [ issue_date |-> origin.issue, next_update |-> origin.next,
                         miscselect |-> origin.miscselect,
                         miscselect_mask |-> <<255, 255, 255, 255>>,
                         attributes |-> [i \in 1 .. 16 |-> 16 + i],
                         attributes_mask |-> [i \in 1 .. 16 |-> 251 - i],
                         mrsigner |-> [i \in 1 .. 32 |-> 140 + i],
                         isvprodid |-> origin.isvprodid,
                         tcb |-> KeptIsvsvns(origin.levels) ]

\* Levels with isvsvn 7 and 6, both up to date, are kept in that order
C13_Witness ==
    /\ Returned("EnclaveIdentity::to_quoting_enclave")
    /\ origin.levels = << [isvsvn |-> 7, status |-> STATUS_UP_TO_DATE],
                          [isvsvn |-> 6, status |-> STATUS_UP_TO_DATE] >>
    /\ result.kind = "Ok"
    /\ result.value.tcb = <<7, 6>>

\* A level with isvsvn 5 and a level that is out of date are both dropped
C13_Dropped ==
    /\ Returned("EnclaveIdentity::to_quoting_enclave")
    /\ origin.levels = << [isvsvn |-> 5, status |-> STATUS_UP_TO_DATE],
                          [isvsvn |-> 6, status |-> <<79, 117, 116, 79, 102, 68, 97, 116, 101>>] >>
    /\ result.kind = "Ok"
    /\ result.value.tcb = <<>>

\* The levels of a TCB info that are kept, in their order
KeptTcbs(levels) ==
    LET kept == SelectSeq(levels, LAMBDA l : l.status \in {<<85, 112, 84, 111, 68, 97, 116, 101>>, <<83, 87, 72, 97, 114, 100, 101, 110, 105, 110, 103, 78, 101, 101, 100, 101, 100>>})
    IN  [i \in 1 .. Len(kept) |->
            [components |-> ComponentSvns(kept[i].svn), pcesvn |-> kept[i].pcesvn]]

\* C14: to_chain_tcb_info of a V2 and of a V3 returns the fmspc of the
\* document and, in their order, the tcbLevels whose tcbStatus is "UpToDate"
\* or "SWHardeningNeeded", each as its 16 component svns in index order and
\* its pcesvn.
C14_ChainTcbInfoKeepsValidLevels ==
    Returned("TcbInfo::to_chain_tcb_info") /\ result.kind = "Ok" =>
        /\ result.value.fmspc = origin.fmspc
        /\ result.value.tcb_levels = KeptTcbs(origin.levels)

\* A V3 keeps a level that needs software hardening and the up-to-date level
\* after it
C14_Witness ==
    /\ Returned("TcbInfo::to_chain_tcb_info")
    /\ base.kind = "V3"
    /\ origin.levels = << [status |-> STATUS_SW_HARDENING_NEEDED, svn |-> 7, pcesvn |-> 10],
                          [status |-> STATUS_UP_TO_DATE, svn |-> 250, pcesvn |-> 11] >>
    /\ result.kind = "Ok"
    /\ Len(result.value.tcb_levels) = 2
    /\ result.value.tcb_levels[1].components[1] = 10

\* C15: TcbInfo::from_byte_slice returns V2 whenever the bytes deserialise as
\* TcbInfoV2, V3 when they do not but deserialise as TcbInfoV3, and None
\* exactly when both fail; a well-formed version 2 document gives V2.
C15_V2FirstThenV3 ==
    pc # "call" /\ op \in {"TcbInfo::is_valid", "TcbInfo::to_chain_tcb_info"} =>
        LET v2 == de_TcbInfoV2(arg)
            v3 == de_TcbInfoV3(arg)
        IN  /\ v2.ok => base = [kind |-> "V2", value |-> v2.v]
            /\ ~v2.ok /\ v3.ok => base = [kind |-> "V3", value |-> v3.v]
            /\ (base = None) <=> (~v2.ok /\ ~v3.ok)
            /\ origin.schema = 2 /\ origin.shape = "full" => base.kind = "V2"

\* A version 3 document with a level is read as V3, the v2 schema having
\* failed
C15_Witness ==
    /\ pc = "deserialized"
    /\ op = "TcbInfo::to_chain_tcb_info"
    /\ origin.schema = 3
    /\ Len(origin.levels) = 1
    /\ ~de_TcbInfoV2(arg).ok
    /\ base.kind = "V3"

\* C19: to_quoting_enclave and to_chain_tcb_info return a value for every
\* document that deserialised, also when issueDate or nextUpdate lies before
\* the epoch.
C19_ProjectionsNeverAbort ==
    /\ Returned("EnclaveIdentity::to_quoting_enclave") => result.kind = "Ok"
    /\ Returned("TcbInfo::to_chain_tcb_info") => result.kind = "Ok"

---------------------------------------------------------------------------
(* as_asn1 on raw signatures *)

\* The most leading zero bytes of a number that has other bytes set
MaxZeroes == 2

\* 32-byte big-endian numbers: zero, and numbers with some leading zero
\* bytes (all but the last at most), then a byte with or without the top
\* bit, then all bits clear or all set
Numbers32 ==
    {Fill(32, 0)}
    \cup {Fill(z, 0) \o <<b>> \o Fill(31 - z, t) :
            z \in (0 .. MaxZeroes) \cup {31}, b \in {1, 127, 128, 255}, t \in {0, 255}}

\* Inputs of as_asn1: r || s, and inputs of other lengths
Asn1Inputs ==
    {r \o s : r \in Numbers32, s \in Numbers32}
    \cup {Fill(n, 129) : n \in {0, 32, 63, 65}}

InitAsn1 ==
    /\ pc = "call"
    /\ op = "as_asn1"
    /\ arg \in Asn1Inputs
    /\ usize_bits = 64
    /\ dcap_quote = <<>>
    /\ verification_time = 0
    /\ qe = <<>>
    /\ origin = <<>>
    /\ base = <<>>
    /\ result = None

AsAsn1 ==
    /\ pc = "call"
    /\ result' = IF as_asn1_checked(arg).kind = "panic" THEN Panic
                 ELSE [kind |-> "Ok", value |-> as_asn1(arg)]
    /\ pc' = "done"
    /\ UNCHANGED <<op, usize_bits, dcap_quote, verification_time, qe, origin, base, arg>>

NextAsn1 == AsAsn1

SpecAsn1 == InitAsn1 /\ [][NextAsn1]_vars

\* C16: for every 64-byte r || s, as_asn1 gives a DER SEQUENCE of two
\* unsigned INTEGERs that read back, left-padded to 32 bytes, as r and s.
C16_Asn1RoundTrip ==
    pc = "done" /\ Len(arg) = 64 =>
        /\ result.kind = "Ok"
        /\ parse_asn1_sequence_of_two_uints(result.value) =
              [ok |-> TRUE, r |-> Slice(arg, 0, 32), s |-> Slice(arg, 32, 64)]

\* r with leading zero bytes and s with the top bit set: 2 + (2 + 30) +
\* (2 + 33) bytes that read back
C16_Witness ==
    /\ pc = "done"
    /\ Len(arg) = 64
    /\ arg[1] = 0 /\ arg[2] = 0 /\ arg[3] = 127
    /\ arg[33] = 255
    /\ result.kind = "Ok"
    /\ Len(result.value) = 69
    /\ parse_asn1_sequence_of_two_uints(result.value).s = Slice(arg, 32, 64)

---------------------------------------------------------------------------
(* The variable-length fields of a DCAP quote *)

\* The size the quote announces for its QE authentication data, -1 when the
\* quote ends before the field
AnnouncedAuthSize ==
    IF Len(dcap_quote) < DCAP_FIXED_PART + SIZE_OF_U16 THEN -1
    ELSE u16_from_le_bytes(Slice(dcap_quote, DCAP_FIXED_PART, DCAP_FIXED_PART + SIZE_OF_U16))

\* C17: verify_dcap_quote never returns Ok for a quote whose QE
\* authentication data size field differs from 32.
C17_OtherAuthSizeRefused ==
    Called /\ AnnouncedAuthSize # AUTHENTICATION_DATA_SIZE => result.kind # "Ok"

\* Quotes submitted to the decoder: truncated quotes, quotes with size fields
\* beyond their end, quotes with authentication data of several sizes, and
\* the good quote with another signature_data_len
DecodeInputs ==
    RawQuotes
    \cup {MkDcapQuote(d) : d \in AuthDescs}
    \cup {SubSeq(GoodQuote, 1, DCAP_QUOTE_HEADER_SIZE + REPORT_SIZE) \o sz
          \o SubSeq(GoodQuote, DCAP_QUOTE_HEADER_SIZE + REPORT_SIZE + SIZE_OF_U32 + 1,
                    Len(GoodQuote)) : sz \in SizeFields}

\* <DcapQuote as Decode>::decode, block by block: arg is the input still to
\* read, base the buffer last allocated and the input that was left for it
InitDecode ==
    /\ op = "DcapQuote::decode"
    /\ pc = "call"
    /\ usize_bits \in {32, 64}
    /\ dcap_quote \in DecodeInputs
    /\ arg = dcap_quote
    /\ verification_time = 0
    /\ qe = <<>>
    /\ origin = <<>>
    /\ base = None
    /\ result = None

\* header, body, signature_data_len and the fixed-size fields of
\* EcdsaQuoteSignature
DecodeFixedPart ==
    /\ pc = "call"
    /\ IF Len(arg) < DCAP_FIXED_PART
       THEN /\ result' = Err("decode")
            /\ pc' = "done"
            /\ UNCHANGED arg
       ELSE /\ arg' = Slice(arg, DCAP_FIXED_PART, Len(arg))
            /\ pc' = "auth"
            /\ UNCHANGED result
    /\ UNCHANGED <<op, usize_bits, dcap_quote, verification_time, qe, origin, base>>

\* QeAuthenticationData::decode up to vec![0; size.into()]
AllocateAuthenticationData ==
    /\ pc = "auth"
    /\ IF Len(arg) < SIZE_OF_U16
       THEN /\ result' = Err("decode")
            /\ pc' = "done"
            /\ UNCHANGED <<arg, base>>
       ELSE /\ base' = [ kind |-> "Vec",
                         allocated |-> u16_from_le_bytes(Slice(arg, 0, SIZE_OF_U16)),
                         remaining |-> Len(arg) - SIZE_OF_U16 ]
            /\ arg' = Slice(arg, SIZE_OF_U16, Len(arg))
            /\ pc' = "auth_allocated"
            /\ UNCHANGED result
    /\ UNCHANGED <<op, usize_bits, dcap_quote, verification_time, qe, origin>>

\* input.read(&mut certification_data) of QeAuthenticationData::decode
ReadAuthenticationData ==
    /\ pc = "auth_allocated"
    /\ IF Len(arg) < base.allocated
       THEN /\ result' = Err("decode")
            /\ pc' = "done"
            /\ UNCHANGED arg
       ELSE /\ arg' = Slice(arg, base.allocated, Len(arg))
            /\ pc' = "cert"
            /\ UNCHANGED result
    /\ UNCHANGED <<op, usize_bits, dcap_quote, verification_time, qe, origin, base>>

\* isize::MAX of a 32-bit build; sizes above it are counted as this many bytes
ISIZE_MAX_32 == 2147483647

\* QeCertificationData::decode up to vec![0; size.try_into().unwrap()]; the
\* allocation panics with a capacity overflow above isize::MAX
AllocateCertificationData ==
    /\ pc = "cert"
    /\ IF Len(arg) < SIZE_OF_U16 + SIZE_OF_U32
       THEN /\ result' = Err("decode")
            /\ pc' = "done"
            /\ UNCHANGED <<arg, base>>
       ELSE IF usize_bits = 32 /\ ExceedsIsizeMax32(Slice(arg, SIZE_OF_U16, SIZE_OF_U16 + SIZE_OF_U32))
       THEN /\ result' = Panic
            /\ pc' = "done"
            /\ UNCHANGED <<arg, base>>
       ELSE /\ base' = [ kind |-> "Vec",
                         allocated |-> IF ExceedsIsizeMax32(Slice(arg, SIZE_OF_U16, SIZE_OF_U16 + SIZE_OF_U32))
                                       THEN ISIZE_MAX_32
                                       ELSE u32_from_le_bytes(
                                                Slice(arg, SIZE_OF_U16, SIZE_OF_U16 + SIZE_OF_U32)),
                         remaining |-> Len(arg) - SIZE_OF_U16 - SIZE_OF_U32 ]
            /\ arg' = Slice(arg, SIZE_OF_U16 + SIZE_OF_U32, Len(arg))
            /\ pc' = "cert_allocated"
            /\ UNCHANGED result
    /\ UNCHANGED <<op, usize_bits, dcap_quote, verification_time, qe, origin>>

\* input.read(&mut certification_data) of QeCertificationData::decode; the
\* quote is decoded and arg is what the input has left
ReadCertificationData ==
    /\ pc = "cert_allocated"
    /\ IF Len(arg) < base.allocated
       THEN /\ result' = Err("decode")
            /\ UNCHANGED arg
       ELSE /\ result' = [kind |-> "Ok", value |-> DcapQuote_decode(dcap_quote, usize_bits).q]
            /\ arg' = Slice(arg, base.allocated, Len(arg))
    /\ pc' = "done"
    /\ UNCHANGED <<op, usize_bits, dcap_quote, verification_time, qe, origin, base>>

NextDecode ==
    \/ DecodeFixedPart
    \/ AllocateAuthenticationData
    \/ ReadAuthenticationData
    \/ AllocateCertificationData
    \/ ReadCertificationData

SpecDecode == InitDecode /\ [][NextDecode]_vars

\* The quote is decoded
Decoded == op = "DcapQuote::decode" /\ pc = "done" /\ result.kind = "Ok"

\* The bytes decoding has read after the field signature_data_len
SignatureBlockLength ==
    Len(dcap_quote) - Len(arg) - (DCAP_QUOTE_HEADER_SIZE + REPORT_SIZE + SIZE_OF_U32)

\* C18: in a quote that decodes, the QE authentication data and the QE
\* certification data are as long as their size fields announce, and the
\* signature block is signature_data_len bytes long.
C18_FieldsOccupyAnnouncedSizes ==
    Decoded =>
        LET sig == result.value.quote_signature_data
        IN  /\ Len(sig.qe_authentication_data.certification_data) = AnnouncedAuthSize
            /\ Len(sig.qe_authentication_data.certification_data) = sig.qe_authentication_data.size
            /\ Len(sig.qe_certification_data.certification_data) = sig.qe_certification_data.size
            /\ SignatureBlockLength = u32_from_le_bytes(result.value.signature_data_len)

\* C20: the decoders of the QE authentication data and the QE certification
\* data allocate no buffer larger than the input that remains.
C20_SizeCheckedBeforeAllocation ==
    pc \in {"auth_allocated", "cert_allocated"} =>
        base.allocated <= base.remaining

---------------------------------------------------------------------------
(* The order of the checks of verify_ias_report *)

\* The Netscape Comment of the certificate submitted has its three fields
\* and a signing certificate that parses
SigningCertReached ==
    /\ IasCalled
    /\ NetscapeComment_try_from(arg).kind # "Err"
    /\ cert_parses(NetscapeComment_try_from(arg).sig_cert)

\* C21: the signing certificate is verified against the IAS CA before the
\* RSA signature over the report: when both fail the error is "CA
\* verification failed".
C21_CaVerifiedBeforeSignature ==
    SigningCertReached =>
        LET netscape == NetscapeComment_try_from(arg)
        IN  /\ verify_server_cert(netscape.sig_cert, IAS_VALID_UNTIL) # "ok"
            /\ verify_signature(netscape.sig_cert, netscape.attestation_raw, netscape.sig,
                                "RSA_PKCS1_2048_8192_SHA256") # "ok"
            => result = Err("CA verification failed")

---------------------------------------------------------------------------
(* The bytes that are hashed and the fields decoded *)

\* The tags of the checks that come before the hash comparison
TagsBeforeHash ==
    { "Failed to decode attestation report", "Only support for version 3",
      "Only support for ECDSA-256", "Only support for PEM formatted PCK Cert Chain",
      "mrenclave values for quoting enclave don't match",
      "Certificate chain must have 3 certificates",
      "Failed to parse leaf certificate", "Invalid certificate chain" }

\* The call came to the comparison of the hash with the QE report data
HashCheckReached ==
    /\ Called
    /\ result.kind \in {"Ok", "Err"}
    /\ result.kind = "Err" => result.err \notin TagsBeforeHash

\* The first 32 bytes of the decoded QE authentication data (all of it when
\* it is shorter)
DecodedAuthenticationPrefix ==
    LET data == Dec.q.quote_signature_data.qe_authentication_data.certification_data
    IN  Slice(data, 0, Min(AUTHENTICATION_DATA_SIZE, Len(data)))

\* C22: for every quote that reaches the hash check, the bytes hashed are the
\* decoded attestation key followed by the first 32 bytes of the decoded QE
\* authentication data, so the hash check fails exactly when the hash of
\* those decoded bytes differs from the first 32 bytes of the QE report data.
C22_HashOverDecodedFields ==
    HashCheckReached =>
        LET sig == Dec.q.quote_signature_data
            decoded_hash == sha256(sig.ecdsa_attestation_key \o DecodedAuthenticationPrefix)
        IN  (result = Err("Hashes must match"))
            <=> (decoded_hash # Slice(sig.qe_report.report_data.d, 0, 32))

---------------------------------------------------------------------------
(* The ranges signed over and the wire encoding of the decoded fields *)

AlignUp(n, a) == ((n + a - 1) \div a) * a

\* The end of the k-th field of a repr(C) struct, fields given as
\* <<size, alignment>> in declaration order
RECURSIVE repr_c_end(_, _)
repr_c_end(fields, k) ==
    IF k = 0 THEN 0
    ELSE AlignUp(repr_c_end(fields, k - 1), fields[k][2]) + fields[k][1]

MaxAlign(fields) ==
    CHOOSE a \in {fields[i][2] : i \in 1 .. Len(fields)} :
        \A i \in 1 .. Len(fields) : fields[i][2] <= a

\* core::mem::size_of of a repr(C) struct
repr_c_size(fields) == AlignUp(repr_c_end(fields, Len(fields)), MaxAlign(fields))

\* Sum of the encoded sizes of the fields
RECURSIVE wire_size(_)
wire_size(fields) ==
    IF fields = <<>> THEN 0 ELSE Head(fields)[1] + wire_size(Tail(fields))

\* The fields of DcapQuoteHeader
DcapQuoteHeaderFields ==
    << <<2, 2>>, <<2, 2>>, <<4, 4>>, <<2, 2>>, <<2, 2>>, <<16, 1>>, <<20, 1>> >>

\* The fields of SgxReportBody; SGXAttributes is two u64, SgxReportData 64 bytes
SgxReportBodyFields ==
    << <<16, 1>>, <<4, 1>>, <<SGX_REPORT_BODY_RESERVED1_BYTES, 1>>, <<16, 1>>, <<16, 8>>,
       <<32, 1>>, <<SGX_REPORT_BODY_RESERVED2_BYTES, 1>>, <<32, 1>>,
       <<SGX_REPORT_BODY_RESERVED3_BYTES, 1>>, <<64, 1>>, <<2, 2>>, <<2, 2>>, <<2, 2>>,
       <<SGX_REPORT_BODY_RESERVED4_BYTES, 1>>, <<16, 1>>, <<SGX_REPORT_DATA_SIZE, 1>> >>

\* <SgxReportBody as Encode>::encode
SgxReportBody_encode(r) ==
    r.cpu_svn \o r.misc_select \o r.reserved1 \o r.isv_ext_prod_id
    \o r.attributes.flags \o r.attributes.xfrm \o r.mr_enclave \o r.reserved2
    \o r.mr_signer \o r.reserved3 \o r.config_id
    \o u16_to_le_bytes(r.isv_prod_id) \o u16_to_le_bytes(r.isv_svn)
    \o u16_to_le_bytes(r.config_svn) \o r.reserved4 \o r.isv_family_id \o r.report_data.d

\* <DcapQuoteHeader as Encode>::encode
DcapQuoteHeader_encode(h) ==
    u16_to_le_bytes(h.version) \o u16_to_le_bytes(h.attestation_key_type) \o h.reserved
    \o u16_to_le_bytes(h.qe_svn) \o u16_to_le_bytes(h.pce_svn) \o h.qe_vendor_id
    \o h.user_data

\* The sizes in memory used for the offsets are the sizes on the wire
MemorySizesAreWireSizes ==
    /\ DCAP_QUOTE_HEADER_SIZE = repr_c_size(DcapQuoteHeaderFields)
    /\ DCAP_QUOTE_HEADER_SIZE = wire_size(DcapQuoteHeaderFields)
    /\ REPORT_SIZE = repr_c_size(SgxReportBodyFields)
    /\ REPORT_SIZE = wire_size(SgxReportBodyFields)

\* C23: the raw ranges verify_dcap_quote signs over are the decoded fields:
\* bytes [0, 432) are the encoding of the decoded header and ISV report body,
\* bytes [500, 564) the decoded attestation key, bytes [564, 948) the encoding
\* of the decoded QE report; the sizes in memory equal the wire sizes.
C23_SignedRangesAreDecodedFields ==
    (Called /\ Dec.kind = "ok") =>
        LET q == Dec.q
            sig == q.quote_signature_data
        IN  /\ MemorySizesAreWireSizes
            /\ DCAP_QUOTE_HEADER_SIZE + REPORT_SIZE = 432
            /\ attestation_key_offset = 500
            /\ qe_report_offset = 564
            /\ Slice(dcap_quote, 0, DCAP_QUOTE_HEADER_SIZE + REPORT_SIZE)
               = DcapQuoteHeader_encode(q.header) \o SgxReportBody_encode(q.body)
            /\ Slice(dcap_quote, attestation_key_offset,
                     attestation_key_offset + ATTESTATION_KEY_SIZE)
               = sig.ecdsa_attestation_key
            /\ Slice(dcap_quote, qe_report_offset, qe_report_offset + REPORT_SIZE)
               = SgxReportBody_encode(sig.qe_report)

\* A quote whose two signatures verified over these ranges
C23_Witness ==
    /\ Called
    /\ result.kind = "Ok"
    /\ Slice(dcap_quote, 564, 948)
       = SgxReportBody_encode(Dec.q.quote_signature_data.qe_report)
    /\ Slice(dcap_quote, 0, 432)
       = DcapQuoteHeader_encode(Dec.q.header) \o SgxReportBody_encode(Dec.q.body)

---------------------------------------------------------------------------
(* extract_certs on chains with fragments that do not decode *)

MaxBlocks == 3

\* What a chain is made of: a certificate in PEM form ("pem"), its base64
\* followed by the END marker alone ("bare"), a block whose text is not
\* base64 ("bad"), a block with nothing between the markers ("empty")
BlockDescs ==
    { [kind |-> k, der |-> d] : k \in {"pem", "bare"}, d \in {PckLeaf, PlatformCa, RootCa} }
    \cup { [kind |-> k, der |-> <<>>] : k \in {"bad", "empty"} }

\* The text of one block
MkBlock(b) ==
    CASE b.kind = "pem" -> PemBlock(b.der, FALSE)
      [] b.kind = "bare" -> PemBlock(b.der, TRUE)
      [] b.kind = "bad" ->
            BEGIN_CERTIFICATE \o <<NEWLINE>> \o <<65, 33, 65, 65>> \o <<NEWLINE>> \o END_CERTIFICATE
            \o <<NEWLINE>>
      [] OTHER -> BEGIN_CERTIFICATE \o <<NEWLINE>> \o END_CERTIFICATE \o <<NEWLINE>>

RECURSIVE MkChain(_)
MkChain(blocks) ==
    IF blocks = <<>> THEN <<>> ELSE MkBlock(Head(blocks)) \o MkChain(Tail(blocks))

InitCerts ==
    /\ pc = "call"
    /\ op = "extract_certs"
    /\ base \in SeqsUpTo(BlockDescs, MaxBlocks)
    /\ arg = MkChain(base)
    /\ usize_bits = 64
    /\ dcap_quote = <<>>
    /\ verification_time = 0
    /\ qe = <<>>
    /\ origin = <<>>
    /\ result = None

ExtractCerts ==
    /\ pc = "call"
    /\ result' = [kind |-> "Ok", value |-> extract_certs(arg)]
    /\ pc' = "done"
    /\ UNCHANGED <<op, usize_bits, dcap_quote, verification_time, qe, origin, base, arg>>

NextCerts == ExtractCerts

SpecCerts == InitCerts /\ [][NextCerts]_vars

\* The certificates the blocks were made from, in order, those of the blocks
\* that hold base64 only
RECURSIVE CertificatesOf(_)
CertificatesOf(blocks) ==
    IF blocks = <<>> THEN <<>>
    ELSE (IF Head(blocks).kind \in {"pem", "bare"} THEN <<Head(blocks).der>> ELSE <<>>)
         \o CertificatesOf(Tail(blocks))

\* Whether sub is seq with some elements left out
RECURSIVE IsSubsequence(_, _)
IsSubsequence(sub, seq) ==
    IF sub = <<>> THEN TRUE
    ELSE IF seq = <<>> THEN FALSE
    ELSE IF Head(sub) = Head(seq) THEN IsSubsequence(Tail(sub), Tail(seq))
    ELSE IsSubsequence(sub, Tail(seq))

ExtractCertsCalled == op = "extract_certs" /\ pc = "done"

\* C24: extract_certs returns, in the original order, the base64 decoding of
\* every non-empty fragment left after removing newlines and BEGIN markers
\* and splitting on the END marker; fragments that do not decode are dropped
\* without reordering or altering the others, so the output is no longer
\* than the number of non-empty fragments.
C24_ExtractCertsKeepsOrder ==
    ExtractCertsCalled =>
        LET fragments == SelectSeq(cert_fragments(arg), LAMBDA p : Len(p) > 0)
            decoded == [i \in 1 .. Len(fragments) |-> base64_decode(fragments[i])]
            all == [i \in 1 .. Len(fragments) |->
                        IF decoded[i].ok THEN decoded[i].bytes ELSE <<-1, i>>]
        IN  /\ result.value = CertificatesOf(base)
            /\ Len(result.value) <= Len(fragments)
            /\ IsSubsequence(result.value, all)
            /\ Len(result.value) = Cardinality({i \in 1 .. Len(fragments) : decoded[i].ok})

\* A fragment that does not decode between two certificates that differ
C24_Witness ==
    /\ ExtractCertsCalled
    /\ Len(base) = 3
    /\ base[2].kind = "bad"
    /\ base[1].kind = "pem"
    /\ base[3].kind = "bare"
    /\ base[1].der # base[3].der
    /\ result.value = <<base[1].der, base[3].der>>

---------------------------------------------------------------------------
(* The size of what as_asn1 writes *)

\* C25: as_asn1 never aborts: for every 64-byte input the DER encoding fits
\* the 72-byte buffer, 72 bytes being written exactly when both halves have
\* their top bit set, and for every input of another length the empty byte
\* vector is returned.
C25_Asn1FitsBuffer ==
    (op = "as_asn1" /\ pc = "done") =>
        /\ result.kind = "Ok"
        /\ Len(arg) = 64 =>
            /\ Len(result.value) <= ASN1_BUFFER_SIZE
            /\ ASN1_BUFFER_SIZE = 2 + 2 * (2 + 33)
            /\ Len(result.value) = ASN1_BUFFER_SIZE <=> (arg[1] >= 128 /\ arg[33] >= 128)
        /\ Len(arg) # 64 => result.value = <<>>

\* Both halves with the top bit set: the buffer is filled to its last byte
C25_Witness ==
    /\ op = "as_asn1"
    /\ pc = "done"
    /\ Len(arg) = 64
    /\ arg[1] >= 128
    /\ arg[33] >= 128
    /\ result.kind = "Ok"
    /\ Len(result.value) = 72

\* An input of another length: nothing is encoded
C25_WitnessOtherLength ==
    /\ op = "as_asn1"
    /\ pc = "done"
    /\ Len(arg) = 65
    /\ result = [kind |-> "Ok", value |-> <<>>]

---------------------------------------------------------------------------
(* Collateral accepted with its signature *)

\* serde_json::from_slice::<TcbInfo>: the enum is read from an object with
\* one member, named after the variant ("v2" or "v3"), whose value is the
\* variant's content: [ok, v]
de_TcbInfo(v) ==
    IF v.t # "Object" \/ Len(v.s) # 1 THEN [ok |-> FALSE]
    ELSE IF v.s[1].key = <<118, 50>>
    THEN LET r == de_TcbInfoV2(v.s[1].value)
         IN  IF r.ok THEN [ok |-> TRUE, v |-> [kind |-> "V2", value |-> r.v]]
             ELSE [ok |-> FALSE]
    ELSE IF v.s[1].key = <<118, 51>>
    THEN LET r == de_TcbInfoV3(v.s[1].value)
         IN  IF r.ok THEN [ok |-> TRUE, v |-> [kind |-> "V3", value |-> r.v]]
             ELSE [ok |-> FALSE]
    ELSE [ok |-> FALSE]

\* Mutant: the JSON is parsed before the signature is looked at.
deserialize_enclave_identity_parse_first(data, value, signature, certificate) ==
    LET r == de_EnclaveIdentity(value)
    IN  IF ~r.ok THEN Err("Deserialization failed")
        ELSE IF verify_signature(certificate, data, as_asn1(signature), "ECDSA_P256_SHA256") # "ok"
        THEN Err("bad signature")
        ELSE [kind |-> "Ok", value |-> r.v]

\* deserialize_enclave_identity; data are the bytes, value what they are as
\* JSON
deserialize_enclave_identity(data, value, signature, certificate) ==
    LET asn1 == as_asn1_checked(signature)
    IN  IF asn1.kind = "panic" THEN Panic
        ELSE IF verify_signature(certificate, data, asn1.bytes, "ECDSA_P256_SHA256") # "ok"
        THEN Err("bad signature")
        ELSE LET r == de_EnclaveIdentity(value)
             IN  IF r.ok THEN [kind |-> "Ok", value |-> r.v]
                 ELSE Err("Deserialization failed")

\* deserialize_tcb_info
deserialize_tcb_info(data, value, signature, certificate) ==
    LET asn1 == as_asn1_checked(signature)
    IN  IF asn1.kind = "panic" THEN Panic
        ELSE IF verify_signature(certificate, data, asn1.bytes, "ECDSA_P256_SHA256") # "ok"
        THEN Err("bad signature")
        ELSE LET r == de_TcbInfo(value)
             IN  IF r.ok THEN [kind |-> "Ok", value |-> r.v]
                 ELSE Err("Deserialization failed")

\* The bytes of a document
RECURSIVE json_text(_)
RECURSIVE json_texts(_, _, _)
json_texts(items, member, i) ==
    IF i > Len(items) THEN <<>>
    ELSE (IF i > 1 THEN <<44>> ELSE <<>>)
         \o (IF member
             THEN <<QUOTATION_MARK>> \o items[i].key \o <<QUOTATION_MARK, 58>>
                  \o json_text(items[i].value)
             ELSE json_text(items[i]))
         \o json_texts(items, member, i + 1)

json_text(v) ==
    CASE v.t = "String" -> <<QUOTATION_MARK>> \o v.s \o <<QUOTATION_MARK>>
      [] v.t = "Number" -> v.s
      [] v.t = "Null" -> <<110, 117, 108, 108>>
      [] v.t = "Bool" -> <<116, 114, 117, 101>>
      [] v.t = "Array" -> <<91>> \o json_texts(v.s, FALSE, 1) \o <<93>>
      [] v.t = "Object" -> <<123>> \o json_texts(v.s, TRUE, 1) \o <<125>>
      [] OTHER -> <<123>>

\* The certificate of the key that signs the collateral, and another one
TcbSigningCert == <<ROLE_PCK_LEAF, 1, 3>>
OtherCert == <<ROLE_FOREIGN_LEAF, 1, 3>>

\* Signatures submitted with a document: the one that verifies, that one
\* with a byte changed, cut by a byte, with a byte more, the empty one, and
\* the signature of another document
SignatureKinds == {"valid", "corrupt", "cut", "longer", "empty", "other_data"}

MkSignature(kind, data) ==
    LET valid == ecdsa_sign(TcbSigningCert, data)
    IN  CASE kind = "valid" -> valid
          [] kind = "corrupt" -> Corrupt(valid)
          [] kind = "cut" -> Slice(valid, 0, 63)
          [] kind = "longer" -> valid \o <<0>>
          [] kind = "empty" -> <<>>
          [] OTHER -> ecdsa_sign(TcbSigningCert, data \o <<32>>)

\* The documents submitted as QE identity
SignedIdentityDescs == {[GoodIdentityDesc EXCEPT !.shape = sh] : sh \in IdentityShapes}

\* The documents submitted as TCB info: in the enum's form ("v2", "v3"), or
\* the content alone ("bare")
SignedTcbInfoDescs ==
    { [doc |-> [GoodTcbInfoDesc EXCEPT !.schema = sc, !.version = sc, !.shape = sh],
       variant |-> w] :
        sc \in {2, 3}, sh \in {"full", "no_json", "no_pce_id"}, w \in {"v2", "v3", "bare"} }

MkSignedTcbInfo(d) ==
    IF d.variant = "bare" \/ d.doc.shape = "no_json" THEN MkTcbInfo(d.doc)
    ELSE JsonObject(<<Field(IF d.variant = "v2" THEN <<118, 50>> ELSE <<118, 51>>, MkTcbInfo(d.doc))>>)

InitSigned ==
    /\ pc = "call"
    /\ usize_bits = 64
    /\ dcap_quote = <<>>
    /\ verification_time = 0
    /\ result = None
    /\ \/ /\ op = "deserialize_enclave_identity"
          /\ origin \in SignedIdentityDescs
          /\ arg = MkEnclaveIdentity(origin)
       \/ /\ op = "deserialize_tcb_info"
          /\ origin \in SignedTcbInfoDescs
          /\ arg = MkSignedTcbInfo(origin)
    /\ qe \in SignatureKinds
    /\ \E certificate \in {TcbSigningCert, OtherCert} :
            base = [ data |-> json_text(arg), signature |-> MkSignature(qe, json_text(arg)),
                     certificate |-> certificate ]

CallDeserializeEnclaveIdentity ==
    /\ pc = "call"
    /\ op = "deserialize_enclave_identity"
    /\ result' = deserialize_enclave_identity(base.data, arg, base.signature, base.certificate)
    /\ pc' = "done"
    /\ UNCHANGED <<op, usize_bits, dcap_quote, verification_time, qe, origin, base, arg>>

CallDeserializeTcbInfo ==
    /\ pc = "call"
    /\ op = "deserialize_tcb_info"
    /\ result' = deserialize_tcb_info(base.data, arg, base.signature, base.certificate)
    /\ pc' = "done"
    /\ UNCHANGED <<op, usize_bits, dcap_quote, verification_time, qe, origin, base, arg>>

NextSigned ==
    \/ CallDeserializeEnclaveIdentity
    \/ CallDeserializeTcbInfo

SpecSigned == InitSigned /\ [][NextSigned]_vars

SignedCalled ==
    /\ op \in {"deserialize_enclave_identity", "deserialize_tcb_info"}
    /\ pc = "done"

\* The signature submitted is the raw 64-byte ECDSA signature of the data
\* under the key of the certificate submitted
SignatureOfData ==
    /\ qe = "valid"
    /\ base.certificate = TcbSigningCert
    /\ Len(base.signature) = 64
    /\ ecdsa_verify_fixed(base.certificate, base.data, base.signature)

\* C26: deserialize_enclave_identity and deserialize_tcb_info return a value
\* only if the signature over the data verified against the certificate; the
\* signature is checked before the JSON is parsed, so with a signature that
\* does not verify (any that is not 64 bytes long included) the result is
\* "bad signature" whether or not the JSON is well-formed.
C26_SignatureBeforeParsing ==
    SignedCalled =>
        /\ result.kind = "Ok" => SignatureOfData
        /\ ~SignatureOfData => result = Err("bad signature")
        /\ Len(base.signature) # 64 => result = Err("bad signature")
        /\ SignatureOfData => result \in {Err("Deserialization failed")} \/ result.kind = "Ok"

\* Bytes that are no JSON with a signature of 63 bytes: "bad signature"
C26_Witness ==
    /\ SignedCalled
    /\ arg.t = "Invalid"
    /\ Len(base.signature) = 63
    /\ result = Err("bad signature")

\* A document returned: its signature verified
C26_WitnessAccepted ==
    /\ SignedCalled
    /\ op = "deserialize_tcb_info"
    /\ result.kind = "Ok"
    /\ SignatureOfData

---------------------------------------------------------------------------
(* The time the chain is checked at and the time reported *)

\* Instants of the second that holds time (milliseconds)
SameSecond(time) ==
    LET second == time \div 1000
    IN  {1000 * second, 1000 * second + 1, 1000 * second + 500, 1000 * second + 999}

\* C27: the certificate chain is checked at floor(verification_time / 1000)
\* seconds: two verification times of the same second give the same
\* outcome for the same quote, and the report returned keeps the time in
\* milliseconds.
C27_ChainCheckedAtWholeSeconds ==
    Called =>
        /\ \A time \in SameSecond(verification_time) :
              LET other == verify_dcap_quote(dcap_quote, time, qe, usize_bits)
              IN  /\ other.kind = result.kind
                  /\ result.kind # "Ok" => other = result
                  /\ result.kind = "Ok" =>
                        other.report = [result.report EXCEPT !.timestamp = time]
        /\ result.kind = "Ok" => result.report.timestamp = verification_time
        /\ dcap_quote = GoodQuote =>
              (result.kind = "Ok" <=> cert_valid_at(PckLeaf, verification_time \div 1000))

\* Accepted in the last millisecond of the last second of the validity
C27_Witness ==
    /\ Called
    /\ dcap_quote = GoodQuote
    /\ verification_time = 3999
    /\ result.kind = "Ok"
    /\ result.report.timestamp = 3999
    /\ verify_dcap_quote(dcap_quote, 4000, qe, usize_bits) = Err("Invalid certificate chain")

\* Refused in the last millisecond before the validity begins
C27_WitnessBefore ==
    /\ Called
    /\ dcap_quote = GoodQuote
    /\ verification_time = 999
    /\ result = Err("Invalid certificate chain")

---------------------------------------------------------------------------
(* parse_crl *)

\* hex::decode: [ok, bytes]
hex_decode(text) ==
    IF Len(text) % 2 # 0 \/ (\E i \in 1 .. Len(text) : hex_value(text[i]) < 0)
    THEN [ok |-> FALSE]
    ELSE [ok |-> TRUE,
          bytes |-> [i \in 1 .. Len(text) \div 2 |->
                        16 * hex_value(text[2 * i - 1]) + hex_value(text[2 * i])]]

\* Certificate revocation lists are the DER of
\*   SEQUENCE { SEQUENCE { INTEGER issuer, SEQUENCE OF INTEGER serial OPTIONAL },
\*              BIT STRING signature }
\* with one-byte numbers and a one-byte signature.
\* <CertificateList as der::Decode>::from_der: [ok, revoked_certificates]
CertificateList_from_der(der) ==
    IF Len(der) < 2 \/ der[1] # 48 \/ der[2] # Len(der) - 2 THEN [ok |-> FALSE]
    ELSE
        LET content == Slice(der, 2, Len(der))
        IN  IF Len(content) < 2 \/ content[1] # 48 \/ 2 + content[2] > Len(content)
            THEN [ok |-> FALSE]
            ELSE
                LET tbs == Slice(content, 2, 2 + content[2])
                    signature == Slice(content, 2 + content[2], Len(content))
                IN  IF Len(signature) # 3 \/ signature[1] # 3 \/ signature[2] # 1
                    THEN [ok |-> FALSE]
                    ELSE IF Len(tbs) < 3 \/ tbs[1] # 2 \/ tbs[2] # 1 THEN [ok |-> FALSE]
                    ELSE
                        LET rest == Slice(tbs, 3, Len(tbs))
                            count == (Len(rest) - 2) \div 3
                        IN  IF rest = <<>>
                            THEN [ok |-> TRUE, revoked_certificates |-> None]
                            ELSE IF \/ Len(rest) < 2 \/ rest[1] # 48 \/ rest[2] # Len(rest) - 2
                                    \/ (Len(rest) - 2) % 3 # 0
                                    \/ \E i \in 1 .. count :
                                          rest[3 * i] # 2 \/ rest[3 * i + 1] # 1
                            THEN [ok |-> FALSE]
                            ELSE [ok |-> TRUE,
                                  revoked_certificates |->
                                      [kind |-> "Some",
                                       value |-> [i \in 1 .. count |-> rest[3 * i + 2]]]]

\* parse_crl
parse_crl(crl_data) ==
    LET crl_decoded == hex_decode(crl_data)
    IN  IF ~crl_decoded.ok THEN Err("Deserialization failed")
        ELSE
            LET crl == CertificateList_from_der(crl_decoded.bytes)
            IN  IF ~crl.ok THEN Err("Deserialization failed")
                \* revoked_certificates.unwrap()
                ELSE IF crl.revoked_certificates = None THEN Panic
                ELSE [kind |-> "Ok", value |-> Len(crl.revoked_certificates.value)]

MaxRevoked == 2

\* The DER of the list issued by issuer that revokes the serials; a list
\* that is not listed has no revoked certificates field
MkCertificateList(issuer, listed, serials) ==
    LET RECURSIVE entries(_)
        entries(s) == IF s = <<>> THEN <<>> ELSE <<2, 1, Head(s)>> \o entries(Tail(s))
        revoked == IF ~listed THEN <<>>
                   ELSE <<48, 3 * Len(serials)>> \o entries(serials)
        tbs == <<2, 1, issuer>> \o revoked
        content == <<48, Len(tbs)>> \o tbs \o <<3, 1, 170>>
    IN  <<48, Len(content)>> \o content

\* How the list is submitted: in upper or lower case hexadecimal, with a
\* digit missing, with a character that is no digit, with the last byte of
\* the DER missing, with a byte after the DER
CrlForms == {"upper", "lower", "odd", "no_digit", "cut", "trailing"}

MkCrl(d) ==
    LET der == MkCertificateList(d.issuer, d.listed, d.serials)
        upper == hex_encode(der)
    IN  CASE d.form = "upper" -> upper
          [] d.form = "lower" -> [i \in 1 .. Len(upper) |->
                                    IF upper[i] >= 65 THEN upper[i] + 32 ELSE upper[i]]
          [] d.form = "odd" -> Slice(upper, 0, Len(upper) - 1)
          [] d.form = "no_digit" -> [upper EXCEPT ![1] = 71]
          [] d.form = "cut" -> Slice(upper, 0, Len(upper) - 2)
          [] OTHER -> upper \o <<48, 48>>

CrlDescs ==
    { [issuer |-> i, listed |-> TRUE, serials |-> s, form |-> f] :
        i \in {1, 2}, s \in SeqsUpTo({7, 9}, MaxRevoked), f \in CrlForms }
    \cup { [issuer |-> i, listed |-> FALSE, serials |-> <<>>, form |-> f] :
            i \in {1, 2}, f \in CrlForms }

InitCrl ==
    /\ pc = "call"
    /\ op = "parse_crl"
    /\ origin \in CrlDescs
    /\ arg = MkCrl(origin)
    /\ usize_bits = 64
    /\ dcap_quote = <<>>
    /\ verification_time = 0
    /\ qe = <<>>
    /\ base = <<>>
    /\ result = None

ParseCrl ==
    /\ pc = "call"
    /\ result' = parse_crl(arg)
    /\ pc' = "done"
    /\ UNCHANGED <<op, usize_bits, dcap_quote, verification_time, qe, origin, base, arg>>

NextCrl == ParseCrl

SpecCrl == InitCrl /\ [][NextCrl]_vars

\* C28: parse_crl returns the number of revoked serials or an error for
\* every input; a well-formed list without the revoked certificates gives a
\* result and does not abort.
C28_ParseCrlNeverAborts ==
    (op = "parse_crl" /\ pc = "done") => result.kind \in {"Ok", "Err"}

---------------------------------------------------------------------------
(* What verify_dcap_quote reads of the QuotingEnclave *)

\* Quoting enclaves with the mrsigner of qe_ that differ from it in one of
\* the other fields, or in all of them
SameSignerEnclaves(qe_) ==
    { [qe_ EXCEPT !.issue_date = 5000],
      [qe_ EXCEPT !.next_update = 0],
      [qe_ EXCEPT !.miscselect = Fill(4, 9)],
      [qe_ EXCEPT !.miscselect_mask = Fill(4, 0)],
      [qe_ EXCEPT !.attributes = Fill(16, 21)],
      [qe_ EXCEPT !.attributes_mask = Fill(16, 0)],
      [qe_ EXCEPT !.isvprodid = 2],
      [qe_ EXCEPT !.tcb = <<>>],
      [qe_ EXCEPT !.issue_date = 5000, !.next_update = 0, !.miscselect = Fill(4, 9),
                  !.miscselect_mask = Fill(4, 0), !.attributes = Fill(16, 21),
                  !.attributes_mask = Fill(16, 0), !.isvprodid = 2, !.tcb = <<7, 8>>] }

\* C29: the outcome of verify_dcap_quote depends on the QuotingEnclave only
\* through its mrsigner: quoting enclaves with equal mrsigner and other
\* dates, miscselect, attributes, masks, isvprodid or TCB list give the same
\* result for the same quote and time.
C29_OnlyMrsignerIsRead ==
    Called =>
        \A other \in SameSignerEnclaves(qe) :
            verify_dcap_quote(dcap_quote, verification_time, other, usize_bits) = result

\* An accepted quote: accepted as well with a quoting enclave whose dates are
\* past and whose other fields differ, refused with another mrsigner
C29_Witness ==
    /\ Called
    /\ result.kind = "Ok"
    /\ verify_dcap_quote(dcap_quote, verification_time,
                         [qe EXCEPT !.next_update = 0, !.isvprodid = 2, !.tcb = <<>>],
                         usize_bits) = result
    /\ verify_dcap_quote(dcap_quote, verification_time,
                         [qe EXCEPT !.mrsigner = Fill(32, 2)], usize_bits)
       = Err("mrenclave values for quoting enclave don't match")

---------------------------------------------------------------------------
(* The variant a TCB info is held as and its version *)

\* The document is a version 3 TCB info as the v3 schema writes it
ConformingV3 ==
    /\ op \in TCB_INFO_OPS
    /\ origin.schema = 3
    /\ origin.shape = "full"
    /\ origin.id = <<83, 71, 88>>
    /\ origin.version = 3

\* C30: TcbInfo::from_byte_slice classifies by version: V2 is returned only
\* for documents whose version is 2 and V3 only for documents whose version
\* is 3, so every version 3 document of the v3 schema, one with an empty
\* tcbLevels list included, is returned as V3 and passes is_valid inside its
\* validity.
C30_ClassifiedByVersion ==
    pc # "call" /\ op \in TCB_INFO_OPS =>
        /\ base.kind = "V2" => base.value.version = 2
        /\ base.kind = "V3" => base.value.version = 3
        /\ ConformingV3 => base.kind = "V3"
        /\ /\ ConformingV3
           /\ pc = "done"
           /\ op = "TcbInfo::is_valid"
           /\ origin.issue < verification_time
           /\ verification_time < origin.next
           => result = [kind |-> "Ok", value |-> TRUE]

---------------------------------------------------------------------------
Spec == SpecDcap
=============================================================================
